---- MODULE Spec2Model ----
(***************************************************************************)
(* claude-task-monitor (src/index.ts): the watch / debounce / aggregate /  *)
(* publish / archive core as a state machine.                              *)
(*                                                                         *)
(* Time is in milliseconds and advances in steps of TickMs.  Everything    *)
(* that happens between two ticks happens within the same millisecond.     *)
(* The initial state is the state when main() has returned: the startup    *)
(* pass has run and both watchers are installed.  A task file name is      *)
(* used once: a deleted file is not created again.                         *)
(* JavaScript callbacks (watcher handlers, the debounce timer, promise     *)
(* continuations) run to completion on one event loop: they are enabled    *)
(* only while no synchronous pass (writeFiles) is on the stack.  Other     *)
(* processes change the filesystem at any moment, also during a pass.      *)
(***************************************************************************)
EXTENDS Integers, Sequences, FiniteSets, TLC

\* ---------------------------------------------------------------- bounds
TickMs == 100
MaxPending == 1
NumHandles == 2
MaxBurst == 2
MaxCalls == 2
MaxEdits == 1
MaxMtime == 2
MaxChanges == 2
MaxFiles == 3

\* ------------------------------------------------------ program constants
DebounceMs == 300

ListIds == {"a"}
ListDirs == <<"a">>
FileIds == {1, 2}
\* a task file whose content cannot be read or parsed
BadFileIds == {3}
Null == 0

VARIABLES
  fs,                 \* task files present in each list directory
  watchEvents,        \* chokidar events observed and not yet dispatched
  taskDataCache,      \* the reconciliation cache
  timers,             \* the live timers of the runtime
  writeDebounceTimer, \* the handle held by the scheduler, or Null
  pc,                 \* position inside writeFiles, "idle" outside it
  taskLists,          \* local of writeFiles
  availableLists,     \* local of writeFiles
  dataFile,           \* task-monitor-data.json
  htmlFile,           \* task-monitor.html
  currentConfig,      \* the in-memory configuration
  configFile,         \* monitor-config.json
  configChanged,      \* the config watcher saw a change not yet dispatched
  archiveJobs,        \* archiveTaskList executions in flight
  archiveDir,         \* the files of ARCHIVE_DIR
  clockRead,          \* token of the current millisecond once a job has read the clock in it, else 0
  gone,               \* task files that were deleted
  archSeq,            \* number of archiveTaskList calls so far
  burst,              \* size of the current burst of requests
  served,             \* a pass has started since the last request
  quiet,              \* ms since the last request, up to DebounceMs
  lastKnown,          \* the tasks of each list as last read by a scan that found some
  unseen,             \* files of that scan whose unlink has not been handled
  archSince,          \* archives started per list since its last caching
  archFailed,         \* lists with an archive failure logged
  recording,          \* the configuration traffic of this run is being recorded
  apiCalls,           \* POST /api/config requests answered, while recording
  apiLog,             \* the last of them: its body and the response
  passes,             \* passes started, while recording
  reloads,            \* config reloads, while recording
  edits,              \* external edits of the config file
  tree,               \* the watched root in detail: directories, mtimes, prompt files
  changes,            \* changes other processes have made to that root
  MONITOR_DATA,       \* the dashboard page: the snapshot it holds
  page,               \* the dashboard page: fetchFailed and what render() last put on it
  pollTimer,          \* the dashboard page: the handle restartPolling would clear, or Null
  intervals,          \* the dashboard page: the interval timers that are live
  listing,            \* one list directory file by file: name, content, mtime
  deep                \* the directories away from the list level that hold a 1.json

vars == <<fs, watchEvents, taskDataCache, timers, writeDebounceTimer, pc,
          taskLists, availableLists, dataFile, htmlFile, currentConfig,
          configFile, configChanged, archiveJobs,
          archiveDir, clockRead, gone, archSeq, burst, served, quiet,
          lastKnown, unseen, archSince, archFailed,
          recording, apiCalls, apiLog, passes, reloads, edits, tree, changes,
          MONITOR_DATA, page, pollTimer, intervals, listing, deep>>

envVars == <<fs, watchEvents, gone>>
schedVars == <<timers, writeDebounceTimer>>
passVars == <<pc, taskLists, availableLists, dataFile, htmlFile>>
cfgVars == <<currentConfig, configFile, configChanged>>
archVars == <<archiveJobs, archiveDir, clockRead, archSeq>>
reqHist == <<burst, served, quiet>>
scanHist == <<lastKnown, unseen, archSince>>
cfgLog == <<recording, apiCalls, apiLog, passes, reloads, edits>>
treeVars == <<tree, changes>>
pageVars == <<MONITOR_DATA, page>>
pollVars == <<pollTimer, intervals>>

\* ------------------------------------------------------------ helpers
Min(a, b) == IF a < b THEN a ELSE b

RECURSIVE SetToSeq(_)
SetToSeq(S) ==
  IF S = {} THEN <<>>
  ELSE LET m == CHOOSE x \in S : \A y \in S : x <= y
       IN <<m>> \o SetToSeq(S \ {m})

SeqToSet(s) == {s[i] : i \in 1..Len(s)}

\* ------------------------------------------------------------ task reading
\* what readTaskFile returns for a file it cannot read or parse: null
NullTask == [id |-> Null]

\* readTaskFile: the task parsed from file f (named f.json) of a list, or
\* null from the catch block
readTaskFile(f) == IF f \in BadFileIds THEN NullTask ELSE [id |-> f]

\* tasks.sort((a, b) => parseInt(a.id) - parseInt(b.id)): stable insertion
RECURSIVE InsertById(_, _)
InsertById(t, s) ==
  IF s = <<>> THEN <<t>>
  ELSE IF t.id < Head(s).id THEN <<t>> \o s
  ELSE <<Head(s)>> \o InsertById(t, Tail(s))

RECURSIVE SortById(_)
SortById(s) ==
  IF s = <<>> THEN <<>>
  ELSE InsertById(s[Len(s)], SortById(SubSeq(s, 1, Len(s) - 1)))

\* a reading of a list directory that would give up the list at the first
\* file it cannot parse
ReadListDirAbort(fsys, l) ==
  LET files == SetToSeq(fsys[l])
  IN IF \E i \in 1..Len(files) : readTaskFile(files[i]) = NullTask
     THEN <<>>
     ELSE [i \in 1..Len(files) |-> readTaskFile(files[i])]

\* the tasks of one list directory, in readdir order: every file is parsed
\* and pushed if (task)
ReadListDir(fsys, l) ==
  LET files == SetToSeq(fsys[l])
      IsTask(t) == t # NullTask
  IN SelectSeq([i \in 1..Len(files) |-> readTaskFile(files[i])], IsTask)

NoEntry == [present |-> FALSE, tasks |-> <<>>]

\* a scan that would publish a list without readable tasks as an empty list
RECURSIVE ScanListsKeepEmpty(_, _)
ScanListsKeepEmpty(fsys, dirs) ==
  IF dirs = <<>> THEN <<>>
  ELSE <<[id |-> Head(dirs), tasks |-> SortById(ReadListDir(fsys, Head(dirs)))]>>
         \o ScanListsKeepEmpty(fsys, Tail(dirs))

\* getTaskLists: the published lists ...
RECURSIVE ScanLists(_, _)
ScanLists(fsys, dirs) ==
  IF dirs = <<>> THEN <<>>
  ELSE LET l == Head(dirs)
           tasks == ReadListDir(fsys, l)
       IN (IF Len(tasks) > 0
           THEN <<[id |-> l, tasks |-> SortById(tasks)]>>
           ELSE <<>>) \o ScanLists(fsys, Tail(dirs))

getTaskLists(fsys) == ScanLists(fsys, ListDirs)

\* a scan that would leave the cache as it found it
CacheNoRefresh(cache, fsys) == cache

\* ... and its side effect on the cache: taskDataCache.set for each
\* non-empty list, entries of other lists left as they are
CacheAfterScan(cache, fsys) ==
  [l \in ListIds |->
     IF Len(ReadListDir(fsys, l)) > 0
     THEN [present |-> TRUE, tasks |-> SortById(ReadListDir(fsys, l))]
     ELSE cache[l]]

\* getAllTaskListSummaries: the same scan, lighter projection
RECURSIVE ScanSummaries(_, _)
ScanSummaries(fsys, dirs) ==
  IF dirs = <<>> THEN <<>>
  ELSE LET l == Head(dirs)
           tasks == ReadListDir(fsys, l)
       IN (IF Len(tasks) > 0
           THEN <<[id |-> l, taskCount |-> Len(tasks)]>>
           ELSE <<>>) \o ScanSummaries(fsys, Tail(dirs))

getAllTaskListSummaries(fsys) == ScanSummaries(fsys, ListDirs)

\* ------------------------------------------------------------ the watched root in detail
\* readdirSync(TASKS_DIR): the entries of the root, in listing order
TreeDirs == <<".archive", "a", "b", "x.archive">>
DirNames == SeqToSet(TreeDirs)

\* the entries the root holds unless said otherwise
BaseDirs == {".archive", "a", "b"}

\* basename of TASKS_DIR
RootName == "tasks"

\* the directories away from the list level in which another process keeps
\* a file 1.json, as paths below the root: the root itself, a directory a
\* inside list directory b, a directory a inside the archive directory
DeepDirs == {<<>>, <<"b", "a">>, <<".archive", "a">>}

\* the characters of a name
Chars(name) ==
  CASE name = ".archive" -> <<".", "a", "r", "c", "h", "i", "v", "e">>
    [] name = "x.archive" -> <<"x", ".", "a", "r", "c", "h", "i", "v", "e">>
    [] name = "tasks" -> <<"t", "a", "s", "k", "s">>
    [] OTHER -> <<name>>

\* String.prototype.includes
includes(str, sub) ==
  \E i \in 0..(Len(str) - Len(sub)) : SubSeq(str, i + 1, i + Len(sub)) = sub

\* path.basename(path.dirname(filePath)) of a file in the directory dirs
\* below the root
ParentName(dirs) == IF dirs = <<>> THEN RootName ELSE dirs[Len(dirs)]

\* the directories other processes use as task lists
TreeLists == {"a", "b"}

\* the task files a directory can hold
TreeFileIds(d) == IF d = "a" THEN {1, 2} ELSE {1}

\* the modification times a file can carry
Mtimes == 1..MaxMtime

\* an entry of the root that does not exist
NoDir == [present |-> FALSE, readable |-> TRUE, files |-> <<>>, prompt |-> FALSE]

\* a readable directory d whose task files all carry mtime m
StartDir(d, m) ==
  [present |-> TRUE, readable |-> TRUE, files |-> [f \in TreeFileIds(d) |-> m],
   prompt |-> FALSE]

\* files with f.json written at time m
Put(files, f, m) == [g \in DOMAIN files \cup {f} |-> IF g = f THEN m ELSE files[g]]

\* files without f.json
Drop(files, f) == [g \in DOMAIN files \ {f} |-> files[g]]

\* the .json files of each directory
Files(t) == [d \in DirNames |-> DOMAIN t[d].files]

\* readdirSync(listPath) throws: no permission, or the directory vanished
\* after the root was listed
ListingFails(t, d) == ~t[d].readable

\* the tasks pushed for directory d
TreeTasks(t, d) == ReadListDir(Files(t), d)

\* lastModified of directory d: the newest mtime among the files that gave a
\* task, from new Date(0)
LastModified(t, d) ==
  LET ms == {t[d].files[f] : f \in DOMAIN t[d].files \ BadFileIds}
  IN IF ms = {} THEN 0 ELSE CHOOSE m \in ms : \A x \in ms : x <= m

\* a scan that would take the archive directory for a task list
IsListAny(t, d) ==
  /\ t[d].present
  /\ ~ListingFails(t, d)
  /\ TreeTasks(t, d) # <<>>

\* directory d yields a list: it is a directory other than .archive, its
\* listing succeeds and at least one task was read
IsList(t, d) ==
  /\ t[d].present /\ d # ".archive"
  /\ ~ListingFails(t, d)
  /\ TreeTasks(t, d) # <<>>

\* the order of the root listing kept as it is
SortByListing(s) == s

\* sort((a, b) => b.lastModified - a.lastModified): stable, newest first
RECURSIVE InsertRecent(_, _)
InsertRecent(x, s) ==
  IF s = <<>> THEN <<x>>
  ELSE IF Head(s).lastModified < x.lastModified THEN <<x>> \o s
  ELSE <<Head(s)>> \o InsertRecent(x, Tail(s))

RECURSIVE SortByRecency(_)
SortByRecency(s) ==
  IF s = <<>> THEN <<>>
  ELSE InsertRecent(s[Len(s)], SortByRecency(SubSeq(s, 1, Len(s) - 1)))

\* a scan that would give up at the first directory it cannot list
RECURSIVE CollectListsAbort(_, _)
CollectListsAbort(t, dirs) ==
  IF dirs = <<>> THEN <<>>
  ELSE LET d == Head(dirs)
       IN IF t[d].present /\ ListingFails(t, d) THEN <<>>
          ELSE (IF IsList(t, d)
                THEN <<[id |-> d, tasks |-> SortById(TreeTasks(t, d)),
                        lastModified |-> LastModified(t, d)]>>
                ELSE <<>>) \o CollectListsAbort(t, Tail(dirs))

\* the loop of getTaskLists over the root listing
RECURSIVE CollectLists(_, _)
CollectLists(t, dirs) ==
  IF dirs = <<>> THEN <<>>
  ELSE LET d == Head(dirs)
       IN (IF IsList(t, d)
           THEN <<[id |-> d, tasks |-> SortById(TreeTasks(t, d)),
                   lastModified |-> LastModified(t, d)]>>
           ELSE <<>>) \o CollectLists(t, Tail(dirs))

\* getTaskLists on the root in detail
getTaskListsIn(t) == SortByRecency(CollectLists(t, TreeDirs))

\* a scan that would fall back on the cache for a directory that yields
\* no list
ScanResultCached(t, cache) ==
  LET ds == SelectSeq(TreeDirs, LAMBDA d : ~IsList(t, d) /\ cache[d].present)
  IN SortByRecency(CollectLists(t, TreeDirs) \o
       [i \in 1..Len(ds) |->
          [id |-> ds[i], tasks |-> cache[ds[i]].tasks, lastModified |-> 0]])

\* getTaskLists as writeFiles calls it, the module's taskDataCache in its
\* scope: the lists are built from the directory listing alone
ScanResult(t, cache) == getTaskListsIn(t)

\* a scan that would leave the entry of a list it has cached before
CacheKeepOld(cache, t) ==
  [d \in DirNames |->
     IF IsList(t, d) /\ ~cache[d].present
     THEN [present |-> TRUE, tasks |-> SortById(TreeTasks(t, d)),
           lastModified |-> LastModified(t, d)]
     ELSE cache[d]]

\* taskDataCache after that scan: taskDataCache.set(dir.name, { tasks:
\* sortedTasks, lastModified }) for every list pushed
CacheAfterTreeScan(cache, t) ==
  [d \in DirNames |->
     IF IsList(t, d)
     THEN [present |-> TRUE, tasks |-> SortById(TreeTasks(t, d)),
           lastModified |-> LastModified(t, d)]
     ELSE cache[d]]

\* the loop of getAllTaskListSummaries over the root listing
RECURSIVE CollectSummaries(_, _)
CollectSummaries(t, dirs) ==
  IF dirs = <<>> THEN <<>>
  ELSE LET d == Head(dirs)
       IN (IF IsList(t, d)
           THEN <<[id |-> d, taskCount |-> Len(TreeTasks(t, d)),
                   lastModified |-> LastModified(t, d),
                   hasPrompt |-> t[d].prompt]>>
           ELSE <<>>) \o CollectSummaries(t, Tail(dirs))

\* getAllTaskListSummaries on the root in detail
getAllTaskListSummariesIn(t) == SortByRecency(CollectSummaries(t, TreeDirs))

\* the root as a scan deals with it when statSync(filePath) throws for a
\* file of directory d: the throw lands in the catch block that also takes
\* a failed readdirSync(listPath), and the loop continues with the next
\* directory
StatThrows(t, d) == [t EXCEPT ![d].readable = FALSE]

\* monitorData of writeFiles
MonitorData(tl, al, cfg) ==
  [taskLists |-> tl,
   availableLists |-> al,
   selectedListId |-> IF Len(tl) > 0 THEN tl[1].id ELSE "",
   projectDir |-> cfg.projectDir]

\* the generated document: the embedded data and the footer's interval
HtmlContent(tl, al, cfg) ==
  [data |-> MonitorData(tl, al, cfg), pollInterval |-> cfg.pollInterval]

\* ------------------------------------------------------------ configuration
\* A string is a sequence of one-character strings.  A JSON value is a
\* record [t, v]: t is what typeof / Array.isArray tell apart.
JNum(n) == [t |-> "number", v |-> n]
JStr(s) == [t |-> "string", v |-> s]
JArr(a) == [t |-> "array", v |-> a]
JNull == [t |-> "null", v |-> 0]

PollMin == 500
PollMax == 60000

\* DEFAULT_CONFIG, with the first two of its 24 agent names
DEFAULT_CONFIG ==
  [projectDir |-> <<"c", "w", "d">>,
   pollInterval |-> 2000,
   agentNames |-> << <<"a", "l", "p", "h", "a">>, <<"b", "e", "t", "a">> >>]

IsSpace(c) == c \in {" ", "\t", "\n", "\r"}

RECURSIVE TrimStart(_)
TrimStart(s) ==
  IF s # <<>> /\ IsSpace(Head(s)) THEN TrimStart(Tail(s)) ELSE s

RECURSIVE TrimEnd(_)
TrimEnd(s) ==
  IF s # <<>> /\ IsSpace(s[Len(s)]) THEN TrimEnd(SubSeq(s, 1, Len(s) - 1)) ELSE s

\* String.prototype.trim
Trim(s) == TrimEnd(TrimStart(s))

Digits == <<"0", "1", "2", "3", "4", "5", "6", "7", "8", "9">>
IsDigit(c) == \E d \in 1..10 : Digits[d] = c
DigitVal(c) == (CHOOSE d \in 1..10 : Digits[d] = c) - 1

RECURSIVE ParseDigits(_, _)
ParseDigits(s, acc) ==
  IF s = <<>> THEN acc ELSE ParseDigits(Tail(s), acc * 10 + DigitVal(Head(s)))

NaN == [nan |-> TRUE, n |-> 0]
Num(n) == [nan |-> FALSE, n |-> n]

\* Number(x) on the JSON values of the model: a number is itself, a string
\* of decimal digits (surrounding blanks ignored) is its value, the empty
\* string and null are 0, an array is Number of its only element or 0 when
\* empty, anything else is NaN
RECURSIVE Number(_)
Number(x) ==
  CASE x.t = "number" -> Num(x.v)
    [] x.t = "string" ->
         LET s == Trim(x.v)
         IN IF \A i \in 1..Len(s) : IsDigit(s[i]) THEN Num(ParseDigits(s, 0)) ELSE NaN
    [] x.t = "null" -> Num(0)
    [] x.t = "array" ->
         IF Len(x.v) = 0 THEN Num(0)
         ELSE IF Len(x.v) = 1 THEN Number(x.v[1])
         ELSE NaN
    [] OTHER -> NaN

Has(input, k) == k \in DOMAIN input

\* the rule validateConfig applies to the value v posted for field k
FieldOk(k, v) ==
  CASE k = "projectDir" -> v.t = "string" /\ Len(Trim(v.v)) > 0
    [] k = "pollInterval" ->
         LET n == Number(v) IN ~n.nan /\ n.n >= PollMin /\ n.n <= PollMax
    [] k = "agentNames" ->
         /\ v.t = "array" /\ Len(v.v) > 0
         /\ \A i \in 1..Len(v.v) : v.v[i].t = "string" /\ Len(Trim(v.v[i].v)) > 0
    [] OTHER -> TRUE

ConfigFields == {"projectDir", "pollInterval", "agentNames"}

\* the fields of a posted body whose values do not pass
BadFields(input) == {k \in DOMAIN input \cap ConfigFields : ~FieldOk(k, input[k])}

\* the value validateConfig stores for an accepted value v of field k
PostedValue(k, v) ==
  CASE k = "projectDir" -> Trim(v.v)
    [] k = "pollInterval" -> Number(v).n
    [] k = "agentNames" -> [i \in 1..Len(v.v) |-> Trim(v.v[i].v)]

\* a validation that would build the candidate from the defaults instead
\* of the current configuration
validateConfigReset(input, cur) ==
  IF BadFields(input) # {}
  THEN [valid |-> FALSE, config |-> cur,
        error |-> CHOOSE k \in BadFields(input) : TRUE]
  ELSE [valid |-> TRUE,
        config |-> [k \in ConfigFields |->
                      IF Has(input, k) THEN PostedValue(k, input[k])
                      ELSE DEFAULT_CONFIG[k]],
        error |-> ""]

\* a validation that would let every body pass, taking over what it can
validateConfigLenient(input, cur) ==
  [valid |-> TRUE,
   config |-> IF Has(input, "pollInterval") /\ ~Number(input.pollInterval).nan
              THEN [cur EXCEPT !.pollInterval = Number(input.pollInterval).n]
              ELSE cur,
   error |-> ""]

\* validateConfig against the current configuration cur: the candidate
\* configuration, or the field-naming error
validateConfig(input, cur) ==
  LET pd == IF Has(input, "projectDir") THEN input.projectDir ELSE JNull
      pi == IF Has(input, "pollInterval") THEN Number(input.pollInterval) ELSE NaN
      an == IF Has(input, "agentNames") THEN input.agentNames ELSE JNull
      withDir == IF Has(input, "projectDir")
                 THEN [cur EXCEPT !.projectDir = Trim(pd.v)] ELSE cur
      withPoll == IF Has(input, "pollInterval")
                  THEN [withDir EXCEPT !.pollInterval = pi.n] ELSE withDir
      withNames == IF Has(input, "agentNames")
                   THEN [withPoll EXCEPT !.agentNames =
                           [i \in 1..Len(an.v) |-> Trim(an.v[i].v)]]
                   ELSE withPoll
  IN IF Has(input, "projectDir") /\ (pd.t # "string" \/ Len(Trim(pd.v)) = 0)
     THEN [valid |-> FALSE, config |-> cur, error |-> "projectDir"]
     ELSE IF Has(input, "pollInterval") /\ (pi.nan \/ pi.n < PollMin \/ pi.n > PollMax)
     THEN [valid |-> FALSE, config |-> cur, error |-> "pollInterval"]
     ELSE IF Has(input, "agentNames") /\ (an.t # "array" \/ Len(an.v) = 0)
     THEN [valid |-> FALSE, config |-> cur, error |-> "agentNames"]
     ELSE IF Has(input, "agentNames")
             /\ \E i \in 1..Len(an.v) : an.v[i].t # "string" \/ Len(Trim(an.v[i].v)) = 0
     THEN [valid |-> FALSE, config |-> cur, error |-> "agentName"]
     ELSE [valid |-> TRUE, config |-> withNames, error |-> ""]

\* a serialisation that would write the scalar fields only
ConfigJsonScalars(c) ==
  [projectDir |-> JStr(c.projectDir),
   pollInterval |-> JNum(c.pollInterval)]

\* JSON.stringify(config) followed by JSON.parse: the object a saved
\* configuration is read back as
ConfigJson(c) ==
  [projectDir |-> JStr(c.projectDir),
   pollInterval |-> JNum(c.pollInterval),
   agentNames |-> JArr([i \in 1..Len(c.agentNames) |-> JStr(c.agentNames[i])])]

\* saveConfig: the content of CONFIG_FILE afterwards
saveConfig(c) == [exists |-> TRUE, parsable |-> TRUE, json |-> ConfigJson(c)]

\* a load that would ignore the file
loadConfigDefaults(file) == DEFAULT_CONFIG

\* a load that would fall back to all defaults when any field fails
loadConfigAllOrNothing(file) ==
  IF ~file.exists \/ ~file.parsable THEN DEFAULT_CONFIG
  ELSE LET parsed == file.json
           pd == IF Has(parsed, "projectDir") THEN parsed.projectDir ELSE JNull
           pi == IF Has(parsed, "pollInterval") THEN parsed.pollInterval ELSE JNull
           an == IF Has(parsed, "agentNames") THEN parsed.agentNames ELSE JNull
       IN IF /\ pd.t = "string" /\ Len(pd.v) > 0
             /\ pi.t = "number" /\ pi.v >= PollMin /\ pi.v <= PollMax
             /\ an.t = "array" /\ Len(an.v) > 0
             /\ \A i \in 1..Len(an.v) : an.v[i].t = "string" /\ Len(an.v[i].v) > 0
          THEN [projectDir |-> pd.v, pollInterval |-> pi.v,
                agentNames |-> [i \in 1..Len(an.v) |-> an.v[i].v]]
          ELSE DEFAULT_CONFIG

\* a load that would take any number of the file as the interval
loadConfigUnchecked(file) ==
  IF ~file.exists \/ ~file.parsable THEN DEFAULT_CONFIG
  ELSE LET parsed == file.json
           pi == IF Has(parsed, "pollInterval") THEN parsed.pollInterval ELSE JNull
       IN [DEFAULT_CONFIG EXCEPT
             !.pollInterval = IF pi.t = "number" THEN pi.v ELSE @]

\* loadConfig: field by field, the file's value when in range, else the default
loadConfig(file) ==
  IF ~file.exists \/ ~file.parsable THEN DEFAULT_CONFIG
  ELSE LET parsed == file.json
           pd == IF Has(parsed, "projectDir") THEN parsed.projectDir ELSE JNull
           pi == IF Has(parsed, "pollInterval") THEN parsed.pollInterval ELSE JNull
           an == IF Has(parsed, "agentNames") THEN parsed.agentNames ELSE JNull
       IN [projectDir |-> IF pd.t = "string" /\ Len(pd.v) > 0
                          THEN pd.v ELSE DEFAULT_CONFIG.projectDir,
           pollInterval |-> IF pi.t = "number" /\ pi.v >= PollMin /\ pi.v <= PollMax
                            THEN pi.v ELSE DEFAULT_CONFIG.pollInterval,
           agentNames |-> IF /\ an.t = "array"
                             /\ Len(an.v) > 0
                             /\ \A i \in 1..Len(an.v) :
                                  an.v[i].t = "string" /\ Len(an.v[i].v) > 0
                          THEN [i \in 1..Len(an.v) |-> an.v[i].v]
                          ELSE DEFAULT_CONFIG.agentNames]

\* bodies posted to /api/config: one that changes the interval and one
\* below the allowed range
ApiInputs ==
  {[pollInterval |-> JNum(500)],
   [pollInterval |-> JNum(100)]}

\* bodies posted to /api/config when the configuration traffic is examined:
\* each field with a value that passes and one that does not, and an update
\* of two fields of which one does not pass
CfgInputs ==
  {[pollInterval |-> JNum(100)],
   [pollInterval |-> JStr(<<"6", "0", "0">>)],
   [projectDir |-> JStr(<<" ">>)],
   [projectDir |-> JStr(<<" ", "q">>)],
   [agentNames |-> JArr(<<>>)],
   [agentNames |-> JArr(<<JStr(<<"x">>), JStr(<<>>)>>)],
   [agentNames |-> JArr(<<JStr(<<"x">>), JStr(<<"y">>)>>)],
   [projectDir |-> JStr(<<"q">>), pollInterval |-> JNum(100)]}

\* what another process can leave at CONFIG_FILE: nothing, text that is not
\* JSON, or an object
MissingFile == [exists |-> FALSE, parsable |-> FALSE, json |-> [none |-> JNull]]
GarbledFile == [exists |-> TRUE, parsable |-> FALSE, json |-> [none |-> JNull]]
FileWith(obj) == [exists |-> TRUE, parsable |-> TRUE, json |-> obj]

CfgEdits ==
  {MissingFile,
   GarbledFile,
   FileWith([pollInterval |-> JNum(100)]),
   FileWith([pollInterval |-> JStr(<<"6", "0", "0">>)]),
   FileWith([projectDir |-> JStr(<<" ", "p">>),
             pollInterval |-> JNum(70000),
             agentNames |-> JArr(<<JStr(<<"x">>)>>)]),
   FileWith([projectDir |-> JStr(<<"p">>),
             pollInterval |-> JNum(1000),
             agentNames |-> JArr(<<JStr(<<"x">>), JStr(<<>>)>>)])}

\* the record of the last POST /api/config when none was answered yet
NoCall == [input |-> [none |-> JNull], status |-> 0, error |-> ""]

\* ------------------------------------------------------------ one list directory in detail
\* the ids task files carry: decimal strings, one of them with a leading
\* zero, and one string that is no number
IdStrings == {<<"1">>, <<"2">>, <<"1", "0">>, <<"0", "1">>, <<"x">>}

\* what a .json file of the directory holds: a task with one of these ids,
\* or text that does not parse
Garbled == <<"{">>
Contents == IdStrings \cup {Garbled}

\* the directory as readdirSync lists it: files 1.json, 2.json, ... with
\* their contents and mtimes
Listings ==
  UNION {[1..n -> [content : Contents, mtime : Mtimes]] : n \in 1..MaxFiles}

\* the tasks pushed by the loop over the files: every file that parses, with
\* the file it came from
ListingTasks(files) ==
  LET parsed == SelectSeq([i \in 1..Len(files) |-> [file |-> i, content |-> files[i].content]],
                          LAMBDA x : x.content # Garbled)
  IN [i \in 1..Len(parsed) |-> [id |-> parsed[i].content, file |-> parsed[i].file]]

\* a lastModified that would take the mtime of every .json file
ListingNewestOfAll(files) ==
  LET ms == {files[i].mtime : i \in 1..Len(files)}
  IN IF ms = {} THEN 0 ELSE CHOOSE m \in ms : \A x \in ms : x <= m

\* lastModified after the loop: from new Date(0), raised by the mtime of
\* each file that gave a task
ListingLastModified(files) ==
  LET ms == {files[i].mtime : i \in {j \in 1..Len(files) : files[j].content # Garbled}}
  IN IF ms = {} THEN 0 ELSE CHOOSE m \in ms : \A x \in ms : x <= m

\* the leading decimal digits of a string
RECURSIVE LeadingDigits(_)
LeadingDigits(str) ==
  IF str # <<>> /\ IsDigit(Head(str)) THEN <<Head(str)>> \o LeadingDigits(Tail(str))
  ELSE <<>>

\* parseInt(str) for a string without sign or radix prefix: leading blanks
\* skipped, the leading digits read, NaN when there are none
parseInt(str) ==
  LET digits == LeadingDigits(TrimStart(str))
  IN IF digits = <<>> THEN NaN ELSE Num(ParseDigits(digits, 0))

\* (a, b) => parseInt(a.id) - parseInt(b.id) as Array.prototype.sort takes
\* it: a NaN result counts as +0
CompareById(a, b) ==
  LET x == parseInt(a.id)
      y == parseInt(b.id)
  IN IF x.nan \/ y.nan THEN 0 ELSE x.n - y.n

\* Array.prototype.sort of the runtime for an array shorter than 32: the
\* run at the head of the array is counted, strictly descending if its
\* first pair is, and reversed if so
RECURSIVE RunEnd(_, _, _)
RunEnd(arr, k, descending) ==
  IF k = Len(arr) THEN k
  ELSE LET order == CompareById(arr[k], arr[k + 1])
       IN IF (descending /\ order > 0) \/ (~descending /\ order <= 0)
          THEN RunEnd(arr, k + 1, descending)
          ELSE k

Reverse(arr) == [i \in 1..Len(arr) |-> arr[Len(arr) + 1 - i]]

\* the binary search of the insertion: the number of sorted elements the
\* pivot goes behind
RECURSIVE InsertAt(_, _, _, _)
InsertAt(sorted, pivot, left, right) ==
  IF left >= right THEN left
  ELSE LET mid == left + ((right - left) \div 2)
       IN IF CompareById(pivot, sorted[mid + 1]) < 0
          THEN InsertAt(sorted, pivot, left, mid)
          ELSE InsertAt(sorted, pivot, mid + 1, right)

\* the rest of the array inserted into the run, element by element
RECURSIVE BinaryInsertionSort(_, _)
BinaryInsertionSort(sorted, rest) ==
  IF rest = <<>> THEN sorted
  ELSE LET at == InsertAt(sorted, Head(rest), 0, Len(sorted))
       IN BinaryInsertionSort(SubSeq(sorted, 1, at) \o <<Head(rest)>> \o
                                SubSeq(sorted, at + 1, Len(sorted)),
                              Tail(rest))

\* tasks.sort((a, b) => parseInt(a.id) - parseInt(b.id))
sortTasks(tasks) ==
  IF Len(tasks) < 2 THEN tasks
  ELSE LET descending == CompareById(tasks[1], tasks[2]) > 0
           n == RunEnd(tasks, 2, descending)
           run == IF descending THEN Reverse(SubSeq(tasks, 1, n)) ELSE SubSeq(tasks, 1, n)
       IN BinaryInsertionSort(run, SubSeq(tasks, n + 1, Len(tasks)))

\* getTaskLists over a root whose only directory is "a" with these files,
\* sorted being the sorted tasks
ListingResult(files, sorted) ==
  IF Len(sorted) > 0
  THEN <<[id |-> "a", tasks |-> sorted, lastModified |-> ListingLastModified(files)]>>
  ELSE <<>>

\* the first getTaskLists of the process over that root
ListScan ==
  /\ pc = "idle" /\ listing # <<>>
  /\ taskLists' = ListingResult(listing, sortTasks(ListingTasks(listing)))
  /\ taskDataCache' =
       [l \in ListIds |->
          IF Len(ListingTasks(listing)) > 0
          THEN [present |-> TRUE, tasks |-> sortTasks(ListingTasks(listing)),
                lastModified |-> ListingLastModified(listing)]
          ELSE taskDataCache[l]]
  /\ pc' = "summaries"
  /\ UNCHANGED <<cfgVars, envVars, schedVars, availableLists, dataFile, htmlFile, archVars,
                 reqHist, scanHist, archFailed, cfgLog, treeVars, pageVars, pollVars, listing, deep>>

\* ------------------------------------------------------------ scheduler
ClearTimeout(ts, h) == {t \in ts : t.h # h}

NewHandle(ts) ==
  LET free == {h \in 1..NumHandles : \A t \in ts : t.h # h}
  IN IF free = {} THEN NumHandles
     ELSE CHOOSE h \in free : \A g \in free : h <= g

\* a scheduler that would arm a new timer without clearing the pending one
scheduleWriteFilesNoClear(ts, w) ==
  LET h == NewHandle(ts)
  IN [timers |-> ts \cup {[h |-> h, left |-> DebounceMs]}, writeDebounceTimer |-> h]

\* a scheduler that would clear the pending timer without arming another
scheduleWriteFilesDrop(ts, w) ==
  IF w # Null
  THEN [timers |-> ClearTimeout(ts, w), writeDebounceTimer |-> w]
  ELSE [timers |-> ts \cup {[h |-> NewHandle(ts), left |-> DebounceMs]},
        writeDebounceTimer |-> NewHandle(ts)]

\* scheduleWriteFiles, as a function of the timer table and the variable
scheduleWriteFiles(ts, w) ==
  LET cleared == IF w # Null THEN ClearTimeout(ts, w) ELSE ts
      h == NewHandle(cleared)
  IN [timers |-> cleared \cup {[h |-> h, left |-> DebounceMs]},
      writeDebounceTimer |-> h]

\* a call of scheduleWriteFiles with its bookkeeping
Request ==
  /\ LET s == scheduleWriteFiles(timers, writeDebounceTimer)
     IN /\ timers' = s.timers
        /\ writeDebounceTimer' = s.writeDebounceTimer
  /\ burst' = IF served THEN 1 ELSE Min(burst + 1, MaxBurst)
  /\ served' = FALSE
  /\ quiet' = 0

\* an event loop that would dispatch callbacks while writeFiles is running,
\* as it would if writeFiles awaited its file operations
LoopAlwaysFree == TRUE

\* the event loop can dispatch a callback: writeFiles is synchronous, so no
\* callback runs between its first and its last statement
LoopFree == pc = "idle"

\* the watched root when its detail is left out
NoTree == <<>>

\* ------------------------------------------------------------ Init
\* main() found CONFIG_FILE as start: it loads it, and creates it from what
\* it loaded when it was missing
InitWith(start, files) ==
  /\ fs \in [ListIds -> SUBSET files]
  /\ watchEvents = {}
  /\ taskDataCache = CacheAfterScan([l \in ListIds |-> NoEntry], fs)
  /\ timers = {}
  /\ writeDebounceTimer = Null
  /\ pc = "idle"
  /\ taskLists = <<>>
  /\ availableLists = <<>>
  /\ currentConfig = loadConfig(start)
  /\ configFile = IF start.exists THEN start ELSE saveConfig(currentConfig)
  /\ configChanged = FALSE
  /\ dataFile = MonitorData(getTaskLists(fs), getAllTaskListSummaries(fs), currentConfig)
  /\ htmlFile = HtmlContent(getTaskLists(fs), getAllTaskListSummaries(fs), currentConfig)
  /\ archiveJobs = {}
  /\ archiveDir = {}
  /\ clockRead = 0
  /\ gone = [l \in ListIds |-> {}]
  /\ archSeq = 0
  /\ burst = 0
  /\ served = TRUE
  /\ quiet = DebounceMs
  /\ lastKnown = [l \in ListIds |-> SortById(ReadListDir(fs, l))]
  /\ unseen = fs
  /\ archSince = [l \in ListIds |-> 0]
  /\ archFailed = {}
  /\ apiCalls = 0
  /\ apiLog = NoCall
  /\ passes = 0
  /\ reloads = 0
  /\ edits = 0

\* at start the list directories hold well-formed task files
\* the page before its script has run, and with no page open
NoPage == [fetchFailed |-> FALSE, rendered |-> FALSE, available |-> 0, rows |-> <<>>]
\* window.__MONITOR_DATA__ || null, with no document loaded
NotLoaded == [none |-> Null]
NoBrowser == MONITOR_DATA = NotLoaded /\ page = NoPage /\ pollTimer = Null /\ intervals = {}

\* no list directory is looked at file by file
NoListing == listing = <<>>

\* no .json file away from the list level
NoDeep == deep = {}

InitState(start) ==
  InitWith(start, FileIds) /\ tree = NoTree /\ changes = 0 /\ NoBrowser /\ NoListing /\ NoDeep

\* the monitor started without a config file
Init == InitState(MissingFile) /\ recording = FALSE

\* ------------------------------------------------------------ environment
\* another process creates task file f.json in list directory l
AddFile(l, f) ==
  /\ f \notin fs[l] /\ f \notin gone[l]
  /\ Cardinality(watchEvents) < MaxPending
  /\ fs' = [fs EXCEPT ![l] = @ \cup {f}]
  /\ watchEvents' = watchEvents \cup {[kind |-> "add", list |-> l, file |-> f]}
  /\ UNCHANGED <<cfgVars, gone, taskDataCache, schedVars, passVars, archVars, reqHist,
                 scanHist, archFailed,
                 cfgLog, treeVars, pollVars, listing, deep, pageVars>>

\* another process rewrites task file f.json of list l
ChangeFile(l, f) ==
  /\ f \in fs[l]
  /\ Cardinality(watchEvents) < MaxPending
  /\ watchEvents' = watchEvents \cup {[kind |-> "change", list |-> l, file |-> f]}
  /\ UNCHANGED <<cfgVars, fs, gone, taskDataCache, schedVars, passVars, archVars, reqHist,
                 scanHist, archFailed,
                 cfgLog, treeVars, pollVars, listing, deep, pageVars>>

\* another process deletes task file f.json of list l
RemoveFile(l, f) ==
  /\ f \in fs[l]
  /\ Cardinality(watchEvents) < MaxPending
  /\ gone' = [gone EXCEPT ![l] = @ \cup {f}]
  /\ fs' = [fs EXCEPT ![l] = @ \ {f}]
  /\ watchEvents' = watchEvents \cup {[kind |-> "unlink", list |-> l, file |-> f]}
  /\ UNCHANGED <<cfgVars, taskDataCache, schedVars, passVars, archVars, reqHist, scanHist,
                 archFailed,
                 cfgLog, treeVars, pollVars, listing, deep, pageVars>>

\* time passes
Tick ==
  /\ timers' = {[t EXCEPT !.left = IF @ > TickMs THEN @ - TickMs ELSE 0] : t \in timers}
  /\ quiet' = Min(quiet + TickMs, DebounceMs)
  /\ clockRead' = 0
  /\ UNCHANGED <<cfgVars, envVars, taskDataCache, writeDebounceTimer, passVars, archiveJobs,
                 archiveDir, archSeq, burst, served, scanHist, archFailed,
                 cfgLog, treeVars, pollVars, listing, deep, pageVars>>

\* ------------------------------------------------------------ watcher handlers
\* taskWatcher.on("add")
OnAdd(e) ==
  /\ LoopFree
  /\ e \in watchEvents /\ e.kind = "add"
  /\ watchEvents' = watchEvents \ {e}
  /\ Request
  /\ UNCHANGED <<cfgVars, fs, gone, taskDataCache, passVars, archVars, scanHist, archFailed,
                 cfgLog, treeVars, pollVars, listing, deep, pageVars>>

\* taskWatcher.on("change")
OnChange(e) ==
  /\ LoopFree
  /\ e \in watchEvents /\ e.kind = "change"
  /\ watchEvents' = watchEvents \ {e}
  /\ Request
  /\ UNCHANGED <<cfgVars, fs, gone, taskDataCache, passVars, archVars, scanHist, archFailed,
                 cfgLog, treeVars, pollVars, listing, deep, pageVars>>

\* archiveTaskList up to its first await: the mkdir is in flight
archiveTaskList(jobs, n, taskListId, tasks) ==
  jobs \cup {[n |-> n, id |-> taskListId, tasks |-> tasks, stage |-> "mkdir", ts |-> 0]}

\* taskDataCache.get(taskListId): no entry under a key that was never set
CacheGet(cache, taskListId) ==
  IF taskListId \in DOMAIN cache THEN cache[taskListId] ELSE NoEntry

\* an unlink handler that would archive and keep the cache entry
UnlinkArchiveKeepEntry(cache, jobs, n, taskListId) ==
  LET cachedData == CacheGet(cache, taskListId)
  IN IF cachedData.present /\ Len(cachedData.tasks) > 0
     THEN [jobs |-> archiveTaskList(jobs, n, taskListId, cachedData.tasks),
           cache |-> cache,
           schedule |-> TRUE]
     ELSE [jobs |-> jobs, cache |-> cache, schedule |-> TRUE]

\* an unlink handler that would return once it has started an archive
UnlinkArchiveReturn(cache, jobs, n, taskListId) ==
  LET cachedData == CacheGet(cache, taskListId)
  IN IF cachedData.present /\ Len(cachedData.tasks) > 0
     THEN [jobs |-> archiveTaskList(jobs, n, taskListId, cachedData.tasks),
           cache |-> [cache EXCEPT ![taskListId] = NoEntry],
           schedule |-> FALSE]
     ELSE [jobs |-> jobs, cache |-> cache, schedule |-> TRUE]

\* the unlink handler between its filter and its log line: what becomes of
\* the jobs and of the cache, and whether scheduleWriteFiles is reached
UnlinkArchive(cache, jobs, n, taskListId) ==
  LET cachedData == CacheGet(cache, taskListId)
  IN IF cachedData.present /\ Len(cachedData.tasks) > 0
     THEN [jobs |-> archiveTaskList(jobs, n, taskListId, cachedData.tasks),
           cache |-> [cache EXCEPT ![taskListId] = NoEntry],
           schedule |-> TRUE]
     ELSE [jobs |-> jobs, cache |-> cache, schedule |-> TRUE]

\* taskWatcher.on("unlink")
OnUnlink(e) ==
  /\ LoopFree
  /\ e \in watchEvents /\ e.kind = "unlink"
  /\ watchEvents' = watchEvents \ {e}
  /\ LET r == UnlinkArchive(taskDataCache, archiveJobs, archSeq + 1, e.list)
         started == Cardinality(r.jobs) - Cardinality(archiveJobs)
     IN /\ archiveJobs' = r.jobs
        /\ taskDataCache' = r.cache
        /\ archSeq' = archSeq + started
        /\ archSince' = [archSince EXCEPT ![e.list] = @ + started]
        /\ IF r.schedule THEN Request
           ELSE UNCHANGED <<schedVars, reqHist>>
  /\ unseen' = [unseen EXCEPT ![e.list] = @ \ {e.file}]
  /\ UNCHANGED <<cfgVars, fs, gone, passVars, archiveDir, clockRead, lastKnown, archFailed,
                 cfgLog, treeVars, pollVars, listing, deep, pageVars>>

\* ------------------------------------------------------------ config handlers
\* the answer to a POST /api/config, as recorded
Respond(input, status, error) ==
  /\ apiCalls' = IF recording THEN apiCalls + 1 ELSE apiCalls
  /\ apiLog' = IF recording
               THEN [input |-> input, status |-> status, error |-> error]
               ELSE apiLog

\* POST /api/config with a parsable body: validate, then assign, save and
\* schedule; a save that throws (saveOk = FALSE) lands in the catch block
\* after the assignment.  The config watcher reports a change of a file that
\* existed; the creation of a missing file is an "add", which has no handler
ApiConfigWrite(input, saveOk) ==
  /\ LoopFree
  /\ recording => apiCalls < MaxCalls
  /\ LET result == validateConfig(input, currentConfig)
     IN IF ~result.valid
        THEN /\ UNCHANGED <<cfgVars, schedVars, reqHist>>
             /\ Respond(input, 400, result.error)
        ELSE /\ currentConfig' = result.config
             /\ IF saveOk
                THEN /\ configFile' = saveConfig(result.config)
                     /\ configChanged' = (configChanged \/ configFile.exists)
                     /\ Request
                     /\ Respond(input, 200, "")
                ELSE /\ UNCHANGED <<configFile, configChanged, schedVars, reqHist>>
                     /\ Respond(input, 400, "Invalid JSON")
  /\ UNCHANGED <<envVars, taskDataCache, passVars, archVars, scanHist, archFailed,
                 recording, treeVars, pollVars, listing, deep, pageVars, passes, reloads, edits>>

\* another process rewrites, creates or deletes monitor-config.json; the
\* watcher reports a change when the file existed before and after
EditConfigFile(content) ==
  /\ edits < MaxEdits
  /\ edits' = edits + 1
  /\ configFile' = content
  /\ configChanged' = (configChanged \/ (configFile.exists /\ content.exists))
  /\ UNCHANGED <<currentConfig, envVars, taskDataCache, schedVars, passVars, archVars,
                 reqHist, scanHist, archFailed, recording, treeVars, pollVars, listing, deep, pageVars, apiCalls, apiLog, passes,
                 reloads>>

\* configWatcher.on("change")
ConfigReload ==
  /\ LoopFree
  /\ configChanged
  /\ configChanged' = FALSE
  /\ currentConfig' = loadConfig(configFile)
  /\ Request
  /\ reloads' = IF recording THEN reloads + 1 ELSE reloads
  /\ UNCHANGED <<configFile, envVars, taskDataCache, passVars, archVars, scanHist,
                 archFailed, recording, treeVars, pollVars, listing, deep, pageVars, apiCalls, apiLog, passes, edits>>

\* ------------------------------------------------------------ archive jobs
\* new Date().toISOString(): a wall-clock millisecond is named by a token, the
\* number of the first job that read the clock in it; two reads yield the
\* same string exactly when no time passed between them
Timestamp(token, j) == IF token = 0 THEN j.n ELSE token

\* path.join(ARCHIVE_DIR, `${taskListId}_${timestamp}.json`)
ArchivePath(taskListId, timestamp) == <<taskListId, timestamp>>

\* fs.promises.writeFile: creates the file or replaces its content
WriteArchive(dir, path, content) ==
  {x \in dir : x.path # path} \cup {[path |-> path, content |-> content]}

\* mkdir resolved: the timestamp is read and the writeFile is issued
MkdirDone(j) ==
  /\ LoopFree
  /\ j \in archiveJobs /\ j.stage = "mkdir"
  /\ LET stamped == [j EXCEPT !.stage = "write", !.ts = Timestamp(clockRead, j)]
     IN /\ archiveJobs' = (archiveJobs \ {j}) \cup {stamped}
        /\ clockRead' = stamped.ts
  /\ UNCHANGED <<cfgVars, envVars, taskDataCache, schedVars, passVars, archiveDir, archSeq,
                 reqHist, scanHist, archFailed,
                 cfgLog, treeVars, pollVars, listing, deep, pageVars>>

\* writeFile resolved: the record is on disk
WriteDone(j) ==
  /\ LoopFree
  /\ j \in archiveJobs /\ j.stage = "write"
  /\ archiveDir' = WriteArchive(archiveDir, ArchivePath(j.id, j.ts),
                                [id |-> j.id, archivedAt |-> j.ts, tasks |-> j.tasks])
  /\ archiveJobs' = archiveJobs \ {j}
  /\ UNCHANGED <<cfgVars, envVars, taskDataCache, schedVars, passVars, clockRead, archSeq,
                 reqHist, scanHist, archFailed,
                 cfgLog, treeVars, pollVars, listing, deep, pageVars>>

\* mkdir or writeFile rejected: the catch block logs and the job ends
ArchiveFail(j) ==
  /\ LoopFree
  /\ j \in archiveJobs
  /\ archiveJobs' = archiveJobs \ {j}
  /\ archFailed' = archFailed \cup {j.id}
  /\ UNCHANGED <<cfgVars, envVars, taskDataCache, schedVars, passVars, archiveDir, clockRead,
                 archSeq, reqHist, scanHist,
                 cfgLog, treeVars, pollVars, listing, deep, pageVars>>

\* ------------------------------------------------------------ the pass
\* the debounce timer's callback: writeDebounceTimer = null; writeFiles(),
\* up to and including getTaskLists(); when the scan throws (ok = FALSE) the
\* catch block of writeFiles logs and the pass is over
TimerFire(t, ok) ==
  /\ LoopFree
  /\ t \in timers /\ t.left = 0
  /\ timers' = timers \ {t}
  /\ writeDebounceTimer' = Null
  /\ served' = TRUE
  /\ IF ok
     THEN /\ taskLists' = getTaskLists(fs)
          /\ taskDataCache' = CacheAfterScan(taskDataCache, fs)
          /\ pc' = "summaries"
          /\ lastKnown' = [l \in ListIds |->
                             IF ReadListDir(fs, l) # <<>>
                             THEN SortById(ReadListDir(fs, l))
                             ELSE lastKnown[l]]
          /\ unseen' = [l \in ListIds |->
                          IF ReadListDir(fs, l) # <<>> THEN fs[l] ELSE unseen[l]]
          /\ archSince' = [l \in ListIds |->
                             IF ReadListDir(fs, l) # <<>> THEN 0 ELSE archSince[l]]
     ELSE UNCHANGED <<taskLists, taskDataCache, pc, scanHist>>
  /\ passes' = IF recording THEN passes + 1 ELSE passes
  /\ UNCHANGED <<cfgVars, envVars, availableLists, dataFile, htmlFile, archVars, burst, quiet,
                 archFailed, recording, treeVars, pollVars, listing, deep, pageVars, apiCalls, apiLog, reloads, edits>>

\* const availableLists = getAllTaskListSummaries()
Summaries ==
  /\ pc = "summaries"
  /\ availableLists' = getAllTaskListSummaries(fs)
  /\ pc' = "writeJson"
  /\ UNCHANGED <<cfgVars, envVars, taskDataCache, schedVars, taskLists, dataFile, htmlFile,
                 archVars, reqHist, scanHist, archFailed,
                 cfgLog, treeVars, pollVars, listing, deep, pageVars>>

\* fs.writeFileSync(DATA_FILE, ...)
WriteJson ==
  /\ pc = "writeJson"
  /\ dataFile' = MonitorData(taskLists, availableLists, currentConfig)
  /\ pc' = "writeHtml"
  /\ UNCHANGED <<cfgVars, envVars, taskDataCache, schedVars, taskLists, availableLists, htmlFile,
                 archVars, reqHist, scanHist, archFailed,
                 cfgLog, treeVars, pollVars, listing, deep, pageVars>>

\* fs.writeFileSync(HTML_FILE, ...) and the return of writeFiles
WriteHtml ==
  /\ pc = "writeHtml"
  /\ htmlFile' = HtmlContent(taskLists, availableLists, currentConfig)
  /\ pc' = "idle"
  /\ taskLists' = <<>>
  /\ availableLists' = <<>>
  /\ UNCHANGED <<cfgVars, envVars, taskDataCache, schedVars, dataFile, archVars, reqHist,
                 scanHist, archFailed,
                 cfgLog, treeVars, pollVars, listing, deep, pageVars>>

\* a writeFiles without its try/catch: the exception ends the process
PassFailHalt ==
  /\ pc \in {"summaries", "writeJson", "writeHtml"}
  /\ pc' = "halted"
  /\ UNCHANGED <<cfgVars, envVars, taskDataCache, schedVars, taskLists, availableLists,
                 dataFile, htmlFile, archVars, reqHist, scanHist, archFailed,
                 cfgLog, treeVars, pollVars, listing, deep, pageVars>>

\* a synchronous call inside writeFiles throws: the catch block logs
PassFail ==
  /\ pc \in {"summaries", "writeJson", "writeHtml"}
  /\ pc' = "idle"
  /\ taskLists' = <<>>
  /\ availableLists' = <<>>
  /\ UNCHANGED <<cfgVars, envVars, taskDataCache, schedVars, dataFile, htmlFile, archVars,
                 reqHist, scanHist, archFailed,
                 cfgLog, treeVars, pollVars, listing, deep, pageVars>>

\* ------------------------------------------------------------ the dashboard page
\* the ids tasks carry, and the ids a blockedBy can name: one of them is
\* the id of no task
TaskNumbers == {1, 2}
BlockerIds == {1, 2, 3}
Statuses == {"pending", "in_progress", "completed"}

\* blockedBy arrays: absent or empty, one id, two ids
BlockedBys ==
  {<<>>} \cup {<<a>> : a \in BlockerIds}
         \cup {ab \in BlockerIds \X BlockerIds : ab[1] # ab[2]}

\* the task lists a snapshot can carry to the page: none, or list "a" with
\* tasks 1..n in id order, as getTaskLists sorts them
PageTasks ==
  UNION {[1..n -> [status : Statuses, blockedBy : BlockedBys]] : n \in TaskNumbers}
TaskAt(f, i) == [id |-> i, status |-> f[i].status, blockedBy |-> f[i].blockedBy]
PageLists(f) == <<[id |-> "a", tasks |-> [i \in DOMAIN f |-> TaskAt(f, i)]]>>
PageSnapshots ==
  {MonitorData(<<>>, <<>>, DEFAULT_CONFIG)} \cup
  {MonitorData(PageLists(f), <<[id |-> "a", taskCount |-> Len(f)]>>, DEFAULT_CONFIG) :
     f \in PageTasks}

\* MONITOR_DATA.taskLists
TASK_DATA == MONITOR_DATA.taskLists

\* allTasks.find(t => t.id === id)?.status: the status of the first task
\* with that id, undefined when there is none
StatusOf(allTasks, id) ==
  LET found == SelectSeq(allTasks, LAMBDA t : t.id = id)
  IN IF found = <<>> THEN "undefined" ELSE Head(found).status

\* a getBlockerStatus that takes a blocker it cannot find for done
getBlockerStatusLenient(task, allTasks) ==
  IF Len(task.blockedBy) = 0
  THEN [isBlocked |-> FALSE, blockers |-> <<>>, ready |-> FALSE]
  ELSE LET blockers == [i \in 1..Len(task.blockedBy) |->
                          [id |-> task.blockedBy[i],
                           done |-> StatusOf(allTasks, task.blockedBy[i])
                                      \in {"completed", "undefined"}]]
           allDone == \A i \in DOMAIN blockers : blockers[i].done
       IN [isBlocked |-> ~allDone, blockers |-> blockers,
           ready |-> allDone /\ Len(blockers) > 0]

\* getBlockerStatus(task, allTasks)
getBlockerStatus(task, allTasks) ==
  IF Len(task.blockedBy) = 0
  THEN [isBlocked |-> FALSE, blockers |-> <<>>, ready |-> FALSE]
  ELSE LET blockers == [i \in 1..Len(task.blockedBy) |->
                          [id |-> task.blockedBy[i],
                           done |-> StatusOf(allTasks, task.blockedBy[i]) = "completed"]]
           allDone == \A i \in DOMAIN blockers : blockers[i].done
       IN [isBlocked |-> ~allDone, blockers |-> blockers,
           ready |-> allDone /\ Len(blockers) > 0]

\* getSelectedListId with no hash in the location and nothing stored
getSelectedListId(data) == IF Len(data) > 0 THEN data[1].id ELSE ""

\* the lists render shows: the selected one, or else the first
ShownLists(data, selectedId) ==
  LET chosen == SelectSeq(data, LAMBDA list : list.id = selectedId)
  IN IF Len(chosen) = 0 /\ Len(data) > 0 THEN <<data[1]>> ELSE chosen

\* render: the count of available tasks (pending and not blocked)
RECURSIVE CountAvailable(_)
CountAvailable(lists) ==
  IF lists = <<>> THEN 0
  ELSE LET tasks == Head(lists).tasks
           free == SelectSeq(tasks, LAMBDA task :
                     task.status = "pending" /\ ~getBlockerStatus(task, tasks).isBlocked)
       IN Len(free) + CountAvailable(Tail(lists))

\* 'task ' + task.status
StatusClass(status) ==
  CASE status = "pending" -> "task pending"
    [] status = "in_progress" -> "task in_progress"
    [] status = "completed" -> "task completed"

\* render: the row of one task, with its class, the blockers it waits on
\* and whether it carries the "available" label
TaskRow(task, allTasks) ==
  LET blockerStatus == getBlockerStatus(task, allTasks)
      isAvailable == task.status = "pending" /\ ~blockerStatus.isBlocked
      open == SelectSeq(blockerStatus.blockers, LAMBDA b : ~b.done)
  IN [id |-> task.id,
      taskClass |-> IF isAvailable THEN "task pending available"
                    ELSE IF blockerStatus.isBlocked THEN "task pending blocked"
                    ELSE StatusClass(task.status),
      waitingOn |-> [i \in 1..Len(open) |-> open[i].id],
      canLaunch |-> isAvailable]

\* render: the rows of the lists shown
RECURSIVE TaskRows(_)
TaskRows(lists) ==
  IF lists = <<>> THEN <<>>
  ELSE LET tasks == Head(lists).tasks
       IN [i \in 1..Len(tasks) |-> TaskRow(tasks[i], tasks)] \o TaskRows(Tail(lists))

\* render(), as far as the task rows and the statistics go
render(data, failed) ==
  LET lists == ShownLists(data.taskLists, getSelectedListId(data.taskLists))
  IN [fetchFailed |-> failed, rendered |-> TRUE,
      available |-> CountAvailable(lists), rows |-> TaskRows(lists)]

\* let pollInterval = 2000 of the page script
ClientPollInterval == 2000

\* what an answer of /api/config holds as pollInterval: an interval of the
\* valid range, or 0 for an answer without one (and, for the load, for a
\* request that failed or was not answered 200)
PollAnswers == {0, PollMin, ClientPollInterval}

\* setInterval: one more live timer, under the smallest handle not in use
setInterval(live, ms) ==
  LET h == CHOOSE n \in 1..(Cardinality(live) + 1) : \A i \in live : i.h # n
  IN [timer |-> h, live |-> live \cup {[h |-> h, ms |-> ms]}]

\* clearInterval
clearInterval(live, h) == {i \in live : i.h # h}

\* restartPolling(interval): the timer pollTimer names is cleared and a new
\* one started
restartPolling(timer, live, interval) ==
  LET s == setInterval(IF timer # Null THEN clearInterval(live, timer) ELSE live, interval)
  IN [pollTimer |-> s.timer, intervals |-> s.live]

\* loadSettings() of a page just loaded, as far as polling goes
loadSettings(answer) ==
  IF answer # 0 /\ answer >= PollMin /\ answer <= PollMax
  THEN restartPolling(Null, {}, answer)
  ELSE [pollTimer |-> Null, intervals |-> {}]

\* pollTimer = setInterval(..., pollInterval) of the initialisation: the
\* handle is overwritten, nothing is cleared
StartPolling(timer, live, ms) ==
  LET s == setInterval(live, ms)
  IN [pollTimer |-> s.timer, intervals |-> s.live]

\* the browser opens task-monitor.html: the script takes the embedded
\* snapshot, loads the settings (answer is the pollInterval it is given),
\* renders and starts the poll timer.  No settings are saved before the
\* settings have been loaded
OpenPage(answer) ==
  /\ MONITOR_DATA = NotLoaded
  /\ MONITOR_DATA' = htmlFile.data
  /\ page' = render(htmlFile.data, FALSE)
  /\ LET loaded == loadSettings(answer)
         pollInterval == IF loaded.pollTimer # Null THEN answer ELSE ClientPollInterval
         started == StartPolling(loaded.pollTimer, loaded.intervals, pollInterval)
     IN /\ pollTimer' = started.pollTimer
        /\ intervals' = started.intervals
  /\ UNCHANGED <<cfgVars, envVars, taskDataCache, schedVars, passVars, archVars, reqHist,
                 scanHist, archFailed, cfgLog, treeVars, listing, deep>>

\* saveSettings(), from the request on: the server's part of the exchange
\* is the POST handler, and what it answers is an input here.  An answer
\* that is not ok leaves the page as it is; an ok answer with a
\* pollInterval restarts the polling.  The fetchData() that follows is a
\* step of its own
SaveSettings(ok, answer) ==
  /\ MONITOR_DATA # NotLoaded
  /\ IF ok /\ answer # 0
     THEN LET r == restartPolling(pollTimer, intervals, answer)
          IN /\ pollTimer' = r.pollTimer
             /\ intervals' = r.intervals
     ELSE UNCHANGED pollVars
  /\ UNCHANGED <<cfgVars, envVars, taskDataCache, schedVars, passVars, archVars, reqHist,
                 scanHist, archFailed, cfgLog, treeVars, listing, deep, pageVars>>

\* the browser leaves or reloads the page: its script state and its timers
\* are gone
ClosePage ==
  /\ MONITOR_DATA # NotLoaded
  /\ MONITOR_DATA' = NotLoaded
  /\ page' = NoPage
  /\ pollTimer' = Null
  /\ intervals' = {}
  /\ UNCHANGED <<cfgVars, envVars, taskDataCache, schedVars, passVars, archVars, reqHist,
                 scanHist, archFailed, cfgLog, treeVars, listing, deep>>

\* fetchData(), from a poll timer or from the script: the JSON artifact replaces the
\* snapshot and is rendered; when the fetch fails (ok = FALSE) the snapshot
\* held is rendered again if it has a list
FetchData(ok) ==
  /\ MONITOR_DATA # NotLoaded
  /\ IF ok
     THEN /\ MONITOR_DATA' = dataFile
          /\ page' = render(dataFile, FALSE)
     ELSE /\ UNCHANGED MONITOR_DATA
          /\ page' = IF Len(TASK_DATA) > 0 THEN render(MONITOR_DATA, TRUE)
                     ELSE [page EXCEPT !.fetchFailed = TRUE]
  /\ UNCHANGED <<cfgVars, envVars, taskDataCache, schedVars, passVars, archVars, reqHist,
                 scanHist, archFailed, cfgLog, treeVars, pollVars, listing, deep>>

\* another process changes the status of task i of the first list and the
\* monitor publishes the list again
Republish(i, status) ==
  /\ Len(dataFile.taskLists) > 0
  /\ i \in DOMAIN dataFile.taskLists[1].tasks
  /\ dataFile.taskLists[1].tasks[i].status # status
  /\ dataFile' = [dataFile EXCEPT !.taskLists[1].tasks[i].status = status]
  /\ htmlFile' = [htmlFile EXCEPT !.data = dataFile']
  /\ UNCHANGED <<cfgVars, envVars, taskDataCache, schedVars, pc, taskLists, availableLists,
                 archVars, reqHist, scanHist, archFailed, cfgLog, treeVars, pollVars, listing, deep, pageVars>>

\* ------------------------------------------------------------ the root in detail: steps
\* one more change to the root by another process
Changed == changes < MaxChanges /\ changes' = changes + 1

\* another process writes f.json in directory d, created with it if need
\* be; the file gets mtime m
TreeWrite(d, f, m) ==
  /\ Changed
  /\ Cardinality(watchEvents) < MaxPending
  /\ LET old == tree[d]
     IN /\ tree' = [tree EXCEPT ![d] =
                      [present |-> TRUE, readable |-> old.readable,
                       files |-> Put(old.files, f, m), prompt |-> old.prompt]]
        /\ watchEvents' = watchEvents \cup
             {[kind |-> IF f \in DOMAIN old.files THEN "change" ELSE "add",
               dirs |-> <<d>>, file |-> f, json |-> TRUE]}
  /\ UNCHANGED <<cfgVars, fs, gone, taskDataCache, schedVars, passVars, archVars, reqHist,
                 scanHist, archFailed, cfgLog, pageVars, pollVars, listing, deep>>

\* another process deletes f.json of directory d
TreeRemove(d, f) ==
  /\ f \in DOMAIN tree[d].files
  /\ Changed
  /\ Cardinality(watchEvents) < MaxPending
  /\ tree' = [tree EXCEPT ![d].files = Drop(@, f)]
  /\ watchEvents' = watchEvents \cup
       {[kind |-> "unlink", dirs |-> <<d>>, file |-> f, json |-> TRUE]}
  /\ UNCHANGED <<cfgVars, fs, gone, taskDataCache, schedVars, passVars, archVars, reqHist,
                 scanHist, archFailed, cfgLog, pageVars, pollVars, listing, deep>>

\* another process creates or deletes prompt.md of list directory d
TreePrompt(d) ==
  /\ tree[d].present
  /\ Changed
  /\ Cardinality(watchEvents) < MaxPending
  /\ tree' = [tree EXCEPT ![d].prompt = ~@]
  /\ watchEvents' = watchEvents \cup
       {[kind |-> IF tree[d].prompt THEN "unlink" ELSE "add",
         dirs |-> <<d>>, file |-> Null, json |-> FALSE]}
  /\ UNCHANGED <<cfgVars, fs, gone, taskDataCache, schedVars, passVars, archVars, reqHist,
                 scanHist, archFailed, cfgLog, pageVars, pollVars, listing, deep>>

\* the permissions of list directory d change: its listing starts or stops
\* to throw
TreeChmod(d) ==
  /\ tree[d].present
  /\ Changed
  /\ tree' = [tree EXCEPT ![d].readable = ~@]
  /\ UNCHANGED <<cfgVars, fs, watchEvents, gone, taskDataCache, schedVars, passVars,
                 archVars, reqHist, scanHist, archFailed, cfgLog, pageVars, pollVars, listing, deep>>

\* the filter at the head of the three handlers: the path does not end in
\* .json or includes the text .archive.  The file names of the model (a
\* number and .json, prompt.md) and the path of the root are taken not to
\* include it, which leaves the names of the directories below the root
Ignored(e) ==
  ~e.json \/ \E i \in DOMAIN e.dirs : includes(Chars(e.dirs[i]), Chars(".archive"))

\* taskListId of the unlink handler
taskListId(e) == ParentName(e.dirs)

\* taskWatcher.on("add") and on("change"), filter included
TreeOnWrite(e) ==
  /\ LoopFree
  /\ e \in watchEvents /\ e.kind \in {"add", "change"}
  /\ watchEvents' = watchEvents \ {e}
  /\ IF Ignored(e) THEN UNCHANGED <<schedVars, reqHist>> ELSE Request
  /\ UNCHANGED <<cfgVars, fs, gone, taskDataCache, passVars, archVars, scanHist,
                 archFailed, cfgLog, treeVars, pollVars, listing, deep, pageVars>>

\* taskWatcher.on("unlink"), filter included
TreeOnUnlink(e) ==
  /\ LoopFree
  /\ e \in watchEvents /\ e.kind = "unlink"
  /\ watchEvents' = watchEvents \ {e}
  /\ IF Ignored(e)
     THEN UNCHANGED <<taskDataCache, archiveJobs, archSeq, schedVars, reqHist>>
     ELSE LET r == UnlinkArchive(taskDataCache, archiveJobs, archSeq + 1, taskListId(e))
          IN /\ archiveJobs' = r.jobs
             /\ taskDataCache' = r.cache
             /\ archSeq' = archSeq + Cardinality(r.jobs) - Cardinality(archiveJobs)
             /\ Request
  /\ UNCHANGED <<cfgVars, fs, gone, passVars, archiveDir, clockRead, scanHist,
                 archFailed, cfgLog, treeVars, pollVars, listing, deep, pageVars>>

\* the debounce timer's callback on the root in detail: writeFiles up to
\* and including getTaskLists()
TreeTimerFire(t, ok) ==
  /\ LoopFree
  /\ t \in timers /\ t.left = 0
  /\ timers' = timers \ {t}
  /\ writeDebounceTimer' = Null
  /\ served' = TRUE
  /\ IF ok
     THEN /\ taskLists' = ScanResult(tree, taskDataCache)
          /\ taskDataCache' = CacheAfterTreeScan(taskDataCache, tree)
          /\ pc' = "summaries"
     ELSE UNCHANGED <<taskLists, taskDataCache, pc>>
  /\ passes' = IF recording THEN passes + 1 ELSE passes
  /\ UNCHANGED <<cfgVars, envVars, availableLists, dataFile, htmlFile, archVars, burst, quiet,
                 scanHist, archFailed, recording, apiCalls, apiLog, reloads, edits, treeVars, pollVars, listing, deep, pageVars>>

\* const availableLists = getAllTaskListSummaries() on the root in detail
TreeSummaries ==
  /\ pc = "summaries"
  /\ availableLists' = getAllTaskListSummariesIn(tree)
  /\ pc' = "writeJson"
  /\ UNCHANGED <<cfgVars, envVars, taskDataCache, schedVars, taskLists, dataFile, htmlFile,
                 archVars, reqHist, scanHist, archFailed, cfgLog, treeVars, pollVars, listing, deep, pageVars>>

\* the timer's callback while another process deletes f.json of directory
\* d between the readTaskFile and the statSync of that file in getTaskLists
TreeTimerFireRace(t, d, f) ==
  /\ LoopFree
  /\ t \in timers /\ t.left = 0
  /\ tree[d].present /\ tree[d].readable /\ d # ".archive"
  /\ f \in DOMAIN tree[d].files
  /\ Changed
  /\ Cardinality(watchEvents) < MaxPending
  /\ timers' = timers \ {t}
  /\ writeDebounceTimer' = Null
  /\ served' = TRUE
  /\ tree' = [tree EXCEPT ![d].files = Drop(@, f)]
  /\ watchEvents' = watchEvents \cup
       {[kind |-> "unlink", dirs |-> <<d>>, file |-> f, json |-> TRUE]}
  /\ taskLists' = ScanResult(StatThrows(tree, d), taskDataCache)
  /\ taskDataCache' = CacheAfterTreeScan(taskDataCache, StatThrows(tree, d))
  /\ pc' = "summaries"
  /\ passes' = IF recording THEN passes + 1 ELSE passes
  /\ UNCHANGED <<cfgVars, fs, gone, availableLists, dataFile, htmlFile, archVars, burst, quiet,
                 scanHist, archFailed, recording, apiCalls, apiLog, reloads, edits, pageVars, pollVars, listing, deep>>

\* getAllTaskListSummaries while another process deletes f.json of
\* directory d between the readTaskFile and the statSync of that file
TreeSummariesRace(d, f) ==
  /\ pc = "summaries"
  /\ tree[d].present /\ tree[d].readable /\ d # ".archive"
  /\ f \in DOMAIN tree[d].files
  /\ Changed
  /\ Cardinality(watchEvents) < MaxPending
  /\ tree' = [tree EXCEPT ![d].files = Drop(@, f)]
  /\ watchEvents' = watchEvents \cup
       {[kind |-> "unlink", dirs |-> <<d>>, file |-> f, json |-> TRUE]}
  /\ availableLists' = getAllTaskListSummariesIn(StatThrows(tree, d))
  /\ pc' = "writeJson"
  /\ UNCHANGED <<cfgVars, fs, gone, taskDataCache, schedVars, taskLists, dataFile, htmlFile,
                 archVars, reqHist, scanHist, archFailed, cfgLog, pageVars, pollVars, listing, deep>>

\* ------------------------------------------------------------ specifications
Environment ==
  \/ \E l \in ListIds, f \in FileIds : AddFile(l, f)
  \/ \E l \in ListIds, f \in FileIds : ChangeFile(l, f)
  \/ \E l \in ListIds, f \in FileIds : RemoveFile(l, f)
  \/ Tick

WatcherHandlers ==
  \/ \E e \in watchEvents : OnAdd(e)
  \/ \E e \in watchEvents : OnChange(e)
  \/ \E e \in watchEvents : OnUnlink(e)

ConfigHandlers ==
  \/ \E input \in ApiInputs, saveOk \in BOOLEAN : ApiConfigWrite(input, saveOk)
  \/ ConfigReload

ArchiveSteps ==
  \/ \E j \in archiveJobs : MkdirDone(j)
  \/ \E j \in archiveJobs : WriteDone(j)
  \/ \E j \in archiveJobs : ArchiveFail(j)

Pass ==
  \/ \E t \in timers, ok \in BOOLEAN : TimerFire(t, ok)
  \/ Summaries
  \/ WriteJson
  \/ WriteHtml
  \/ PassFail

ConfigTraffic ==
  \/ \E input \in CfgInputs, saveOk \in BOOLEAN : ApiConfigWrite(input, saveOk)
  \/ \E content \in CfgEdits : EditConfigFile(content)
  \/ ConfigReload

\* watching, archiving and publishing, the configuration left alone
Next == Environment \/ WatcherHandlers \/ ArchiveSteps \/ Pass

Spec == Init /\ [][Next]_vars

\* every source of regeneration requests, the scheduler and the pass; the
\* archive jobs started by unlinks stay in flight
NextSched == Environment \/ WatcherHandlers \/ ConfigHandlers \/ Pass

SchedSpec == Init /\ [][NextSched]_vars

\* the scheduling the runtime guarantees: time advances, a due timer's
\* callback runs once the event loop is free, and synchronous code proceeds
Fairness ==
  /\ WF_vars(Tick)
  /\ WF_vars(\E t \in timers : TimerFire(t, TRUE))
  /\ WF_vars(Summaries)
  /\ WF_vars(WriteJson)
  /\ WF_vars(WriteHtml)

\* the monitor started over a task list that holds one task file
InitLive == Init /\ fs = [l \in ListIds |-> {1}]

LiveSpec == InitLive /\ [][NextSched]_vars /\ Fairness

\* the monitor over one task list that stays as it is, started on any of
\* the config files, its configuration then written through the API and
\* edited by other processes, all of it recorded
InitCfg ==
  \E start \in CfgEdits :
    InitState(start) /\ recording = TRUE /\ fs = [l \in ListIds |-> {1}]

\* the same, started without a config file
InitCfgFresh == InitState(MissingFile) /\ recording = TRUE /\ fs = [l \in ListIds |-> {1}]

NextCfg == ConfigTraffic \/ Tick \/ Pass

CfgSpec == InitCfg /\ [][NextCfg]_vars

\* the config watcher polls, so a change it has seen is dispatched
CfgFairness == Fairness /\ WF_vars(ConfigReload)

CfgLiveSpec == InitCfgFresh /\ [][NextCfg]_vars /\ CfgFairness

\* the monitor over list directories that may hold malformed task files,
\* while other processes create and rewrite task files
InitScan ==
  InitWith(MissingFile, FileIds \cup BadFileIds) /\ recording = FALSE /\ tree = NoTree
  /\ changes = 0 /\ NoBrowser /\ NoListing /\ NoDeep

ScanEnvironment ==
  \/ \E l \in ListIds, f \in FileIds \cup BadFileIds : AddFile(l, f)
  \/ \E l \in ListIds, f \in FileIds \cup BadFileIds : ChangeFile(l, f)
  \/ Tick

ScanHandlers ==
  \/ \E e \in watchEvents : OnAdd(e)
  \/ \E e \in watchEvents : OnChange(e)

NextScan == ScanEnvironment \/ ScanHandlers \/ Pass

ScanSpec == InitScan /\ [][NextScan]_vars

\* the monitor over the root in detail: main() has listed it and written the
\* first artifacts
InitRoot(dirs) ==
  /\ tree \in [DirNames -> {NoDir} \cup {StartDir(d, m) : d \in DirNames, m \in Mtimes}]
  /\ \A d \in DirNames :
       tree[d].present => d \in dirs /\ DOMAIN tree[d].files = TreeFileIds(d)
  /\ changes = 0 /\ NoBrowser /\ NoListing
  /\ fs = [l \in ListIds |-> {}]
  /\ watchEvents = {}
  /\ taskDataCache = CacheAfterTreeScan([d \in DirNames |-> NoEntry], tree)
  /\ timers = {}
  /\ writeDebounceTimer = Null
  /\ pc = "idle"
  /\ taskLists = <<>>
  /\ availableLists = <<>>
  /\ currentConfig = DEFAULT_CONFIG
  /\ configFile = saveConfig(DEFAULT_CONFIG)
  /\ configChanged = FALSE
  /\ dataFile = MonitorData(getTaskListsIn(tree), getAllTaskListSummariesIn(tree),
                            currentConfig)
  /\ htmlFile = HtmlContent(getTaskListsIn(tree), getAllTaskListSummariesIn(tree),
                            currentConfig)
  /\ archiveJobs = {}
  /\ archiveDir = {}
  /\ clockRead = 0
  /\ gone = [d \in DirNames |-> {}]
  /\ archSeq = 0
  /\ burst = 0
  /\ served = TRUE
  /\ quiet = DebounceMs
  /\ lastKnown = [l \in ListIds |-> <<>>]
  /\ unseen = [l \in ListIds |-> {}]
  /\ archSince = [l \in ListIds |-> 0]
  /\ archFailed = {}
  /\ recording = FALSE
  /\ apiCalls = 0
  /\ apiLog = NoCall
  /\ passes = 0
  /\ reloads = 0
  /\ edits = 0

\* the root holds the base entries and nothing away from the list level
InitTree == InitRoot(BaseDirs) /\ NoDeep

TreeEnvironment ==
  \/ \E d \in BaseDirs, f \in FileIds, m \in Mtimes :
       f \in TreeFileIds(d) /\ TreeWrite(d, f, m)
  \/ \E d \in BaseDirs, f \in FileIds : TreeRemove(d, f)
  \/ \E d \in TreeLists : TreePrompt(d)
  \/ \E d \in TreeLists : TreeChmod(d)
  \/ Tick

TreeHandlers ==
  \/ \E e \in watchEvents : TreeOnWrite(e)
  \/ \E e \in watchEvents : TreeOnUnlink(e)

TreePass ==
  \/ \E t \in timers, ok \in BOOLEAN : TreeTimerFire(t, ok)
  \/ TreeSummaries
  \/ WriteJson
  \/ WriteHtml
  \/ PassFail

NextTree == TreeEnvironment \/ TreeHandlers \/ TreePass

TreeSpec == InitTree /\ [][NextTree]_vars

\* ------------------------------------------------------------ files away from the list level
\* another process creates 1.json in one of the directories away from the
\* list level
DeepAdd(dirs) ==
  /\ dirs \notin deep
  /\ Changed
  /\ Cardinality(watchEvents) < MaxPending
  /\ deep' = deep \cup {dirs}
  /\ watchEvents' = watchEvents \cup
       {[kind |-> "add", dirs |-> dirs, file |-> 1, json |-> TRUE]}
  /\ UNCHANGED <<cfgVars, fs, gone, taskDataCache, schedVars, passVars, archVars, reqHist,
                 scanHist, archFailed, cfgLog, tree, pageVars, pollVars, listing>>

\* another process deletes it
DeepRemove(dirs) ==
  /\ dirs \in deep
  /\ Changed
  /\ Cardinality(watchEvents) < MaxPending
  /\ deep' = deep \ {dirs}
  /\ watchEvents' = watchEvents \cup
       {[kind |-> "unlink", dirs |-> dirs, file |-> 1, json |-> TRUE]}
  /\ UNCHANGED <<cfgVars, fs, gone, taskDataCache, schedVars, passVars, archVars, reqHist,
                 scanHist, archFailed, cfgLog, tree, pageVars, pollVars, listing>>

\* the root holds every entry of TreeDirs, each with its task files as
\* written at time 1, and the directories away from the list level hold a
\* 1.json or not
InitPath ==
  /\ InitRoot(DirNames)
  /\ \A d \in DirNames : tree[d] = StartDir(d, 1)
  /\ deep \in SUBSET DeepDirs

\* the changes of TreeSpec, those to the task files of the directories
\* outside BaseDirs, and those away from the list level
PathEnvironment ==
  \/ \E d \in DirNames \ BaseDirs, f \in FileIds, m \in Mtimes :
       f \in TreeFileIds(d) /\ TreeWrite(d, f, m)
  \/ \E d \in DirNames \ BaseDirs, f \in FileIds : TreeRemove(d, f)
  \/ \E dirs \in DeepDirs : DeepAdd(dirs)
  \/ \E dirs \in DeepDirs : DeepRemove(dirs)

NextPath == NextTree \/ PathEnvironment

PathSpec == InitPath /\ [][NextPath]_vars

\* the same, with task files deleted in the middle of a scan
TreeRaces ==
  \/ \E t \in timers, d \in TreeLists, f \in FileIds : TreeTimerFireRace(t, d, f)
  \/ \E d \in TreeLists, f \in FileIds : TreeSummariesRace(d, f)

NextRace == NextTree \/ TreeRaces

RaceSpec == InitTree /\ [][NextRace]_vars

\* the dashboard page over the artifacts of a monitor at rest: the page is
\* opened, polls, and the published list changes under it
InitPage ==
  /\ \E d \in PageSnapshots :
       /\ dataFile = d
       /\ htmlFile = [data |-> d, pollInterval |-> DEFAULT_CONFIG.pollInterval]
  /\ NoBrowser /\ NoListing /\ NoDeep
  /\ tree = NoTree
  /\ changes = 0
  /\ fs = [l \in ListIds |-> {}]
  /\ watchEvents = {}
  /\ taskDataCache = [l \in ListIds |-> NoEntry]
  /\ timers = {}
  /\ writeDebounceTimer = Null
  /\ pc = "idle"
  /\ taskLists = <<>>
  /\ availableLists = <<>>
  /\ currentConfig = DEFAULT_CONFIG
  /\ configFile = saveConfig(DEFAULT_CONFIG)
  /\ configChanged = FALSE
  /\ archiveJobs = {}
  /\ archiveDir = {}
  /\ clockRead = 0
  /\ gone = [l \in ListIds |-> {}]
  /\ archSeq = 0
  /\ burst = 0
  /\ served = TRUE
  /\ quiet = DebounceMs
  /\ lastKnown = [l \in ListIds |-> <<>>]
  /\ unseen = [l \in ListIds |-> {}]
  /\ archSince = [l \in ListIds |-> 0]
  /\ archFailed = {}
  /\ recording = FALSE
  /\ apiCalls = 0
  /\ apiLog = NoCall
  /\ passes = 0
  /\ reloads = 0
  /\ edits = 0

NextPage ==
  \/ \E answer \in PollAnswers : OpenPage(answer)
  \/ \E ok \in BOOLEAN, answer \in PollAnswers : SaveSettings(ok, answer)
  \/ ClosePage
  \/ \E ok \in BOOLEAN : FetchData(ok)
  \/ \E i \in TaskNumbers, status \in Statuses : Republish(i, status)

PageSpec == InitPage /\ [][NextPage]_vars

\* main() reaches its first getTaskLists over a root whose one list
\* directory holds any of the listings
InitList ==
  /\ listing \in Listings /\ NoDeep
  /\ dataFile = MonitorData(<<>>, <<>>, DEFAULT_CONFIG)
  /\ htmlFile = HtmlContent(<<>>, <<>>, DEFAULT_CONFIG)
  /\ NoBrowser
  /\ tree = NoTree
  /\ changes = 0
  /\ fs = [l \in ListIds |-> {}]
  /\ watchEvents = {}
  /\ taskDataCache = [l \in ListIds |-> NoEntry]
  /\ timers = {}
  /\ writeDebounceTimer = Null
  /\ pc = "idle"
  /\ taskLists = <<>>
  /\ availableLists = <<>>
  /\ currentConfig = DEFAULT_CONFIG
  /\ configFile = saveConfig(DEFAULT_CONFIG)
  /\ configChanged = FALSE
  /\ archiveJobs = {}
  /\ archiveDir = {}
  /\ clockRead = 0
  /\ gone = [l \in ListIds |-> {}]
  /\ archSeq = 0
  /\ burst = 0
  /\ served = TRUE
  /\ quiet = DebounceMs
  /\ lastKnown = [l \in ListIds |-> <<>>]
  /\ unseen = [l \in ListIds |-> {}]
  /\ archSince = [l \in ListIds |-> 0]
  /\ archFailed = {}
  /\ recording = FALSE
  /\ apiCalls = 0
  /\ apiLog = NoCall
  /\ passes = 0
  /\ reloads = 0
  /\ edits = 0

NextList == ListScan

ListSpec == InitList /\ [][NextList]_vars

TypeOK ==
  /\ pc \in {"summaries", "writeJson", "writeHtml", "idle"}
  /\ writeDebounceTimer \in 0..NumHandles
  /\ archSeq \in 0..Cardinality(FileIds) * Cardinality(ListIds)

\* ------------------------------------------------------------ the debounce
\* a step in which the timer's callback ran: a live timer is gone and none
\* was armed in its place
CallbackRan == timers' # timers /\ timers' \subseteq timers

\* C1: a burst of requests, each less than 300 ms after the one before, gets
\* exactly one pass: a pass starts only from the timer's callback, only when
\* 300 ms have elapsed since the last request, only for requests not yet
\* served, and it leaves no timer behind; a request made after it opens a
\* burst of its own, which the same rule serves with one more pass
DebounceOnePassPerBurst ==
  [][ /\ (served' /\ ~served) => CallbackRan
      /\ CallbackRan => /\ ~served /\ burst >= 1
                        /\ quiet = DebounceMs
                        /\ served' /\ timers' = {}
      /\ (served /\ ~served') => (burst' = 1 /\ Cardinality(timers') = 1)
      /\ (~served /\ ~served' /\ quiet' = 0 /\ quiet # 0)
           => (quiet < DebounceMs => burst' = Min(burst + 1, MaxBurst)) ]_vars

\* a pass has started for a burst of two requests
BurstServedOnce == served /\ burst >= 2 /\ pc = "summaries"

\* the request C2 promises a pass to: a request leads to the start of a pass
EveryRequestServed == (~served) ~> served

\* C2: no request is dropped while it waits: an unserved request has a live
\* timer due 300 ms after the most recent request, and once 300 ms have gone
\* by without a further request a pass starts; requests that keep arriving
\* less than 300 ms apart postpone the pass for as long as they keep arriving
RequestKeptUntilQuiet ==
  /\ [](~served => \E t \in timers : /\ t.h = writeDebounceTimer
                                     /\ t.left = DebounceMs - quiet)
  /\ (~served /\ quiet = DebounceMs) ~> (served \/ quiet < DebounceMs)

\* a request from the config API is waiting, its timer due
RequestWaitingDue ==
  ~served /\ quiet = DebounceMs /\ configChanged /\ writeDebounceTimer # Null

\* C3: at most one pass is pending: there is never more than one live timer,
\* and writeDebounceTimer is non-null exactly when a timer that has not fired
\* exists, which is the timer it names
AtMostOnePending ==
  /\ Cardinality(timers) <= 1
  /\ writeDebounceTimer # Null <=> timers # {}
  /\ \A t \in timers : t.h = writeDebounceTimer

\* a second request has just replaced the timer of the first
TimerReplaced ==
  writeDebounceTimer # Null /\ burst >= 2 /\ quiet = 0 /\ Cardinality(timers) = 1

\* C4: passes never overlap: from the start of a pass to its completion no
\* timer callback starts another pass and no handler changes the cache or
\* the configuration in memory
PassesNeverOverlap ==
  [][ pc # "idle" => /\ ~CallbackRan
                     /\ writeDebounceTimer' = writeDebounceTimer
                     /\ taskDataCache' = taskDataCache
                     /\ currentConfig' = currentConfig
                     /\ served' = served ]_vars

\* a pass is under way while a watcher event and a config change wait
PassWithEventsWaiting ==
  pc = "writeJson" /\ watchEvents # {} /\ configChanged

\* ------------------------------------------------------------ the archive
\* the ids of the lists in a snapshot
SnapshotIds(tl) == {tl[i].id : i \in 1..Len(tl)}

\* the archive records of list l that hold the given tasks
RecordsOf(l, tasks) == {x \in archiveDir : x.content.id = l /\ x.content.tasks = tasks}

\* an archive of list l was started in this step
ArchiveStarted(l) == archSince'[l] = archSince[l] + 1

\* the files of l that the last caching scan read have all been removed and
\* their unlinks handled
AllRemoved(l) == lastKnown[l] # <<>> /\ unseen[l] = {}

\* a scan that finds l without task files yields a snapshot without l, and
\* that snapshot is what the pass publishes
SnapshotFollowsScan ==
  /\ \A l \in ListIds :
       (pc = "idle" /\ pc' = "summaries" /\ fs[l] = {}) => l \notin SnapshotIds(taskLists')
  /\ (pc = "writeJson" /\ pc' = "writeHtml") => dataFile'.taskLists = taskLists
  /\ (pc = "writeHtml" /\ pc' = "idle" /\ htmlFile' # htmlFile)
       => htmlFile'.data.taskLists = taskLists

\* the record C5 promises: once the files are removed and no archive of the
\* list is in flight, exactly one record holds the last-known tasks
ExactlyOneRecordWritten ==
  /\ [](\A l \in ListIds :
          (AllRemoved(l) /\ \A j \in archiveJobs : j.id # l)
            => Cardinality(RecordsOf(l, lastKnown[l])) = 1)
  /\ [][SnapshotFollowsScan]_vars

\* C5: when the task files of a list that the last pass read are all removed,
\* exactly one archive of the list is started, with the tasks that pass read;
\* an archive that completes writes a record with the tasks it was started
\* with, and one whose mkdir or writeFile fails writes none; a pass that
\* scans after the removals publishes a snapshot without the list
ExactlyOneArchiveStarted ==
  /\ [](\A l \in ListIds : AllRemoved(l) => archSince[l] = 1)
  /\ [][ /\ \A l \in ListIds :
              ArchiveStarted(l) => \E j \in archiveJobs' \ archiveJobs :
                                     j.id = l /\ j.tasks = lastKnown[l] /\ j.stage = "mkdir"
         /\ archiveDir' # archiveDir
              => \E j \in archiveJobs \ archiveJobs' :
                   [path |-> ArchivePath(j.id, j.ts),
                    content |-> [id |-> j.id, archivedAt |-> j.ts, tasks |-> j.tasks]]
                     \in archiveDir'
         /\ SnapshotFollowsScan ]_vars

\* both files of the list were removed, the record is on disk and the
\* published snapshot is without the list
RemovedListArchived ==
  /\ Len(lastKnown["a"]) = 2 /\ unseen["a"] = {}
  /\ RecordsOf("a", lastKnown["a"]) # {}
  /\ served /\ burst >= 1 /\ pc = "idle"
  /\ dataFile.taskLists = <<>> /\ htmlFile.data.taskLists = <<>>

\* what C6 says: an archive of l is started only by a removal that leaves l
\* without task files
ArchivedOnlyWhenDeleted ==
  [][\A l \in ListIds : ArchiveStarted(l) => fs[l] = {}]_vars

\* C7: between two writes of the cache entry of l at most one archive of l
\* is started, and the unlink that starts it deletes the entry, so further
\* unlinks of l before the next pass archive nothing
ArchiveAtMostOnce ==
  \A l \in ListIds :
    /\ archSince[l] <= 1
    /\ archSince[l] = 1 => ~taskDataCache[l].present

\* two unlinks of the list were handled since the scan and one archive was
\* started
SecondUnlinkArchivesNothing ==
  /\ Len(lastKnown["a"]) = 2 /\ unseen["a"] = {} /\ watchEvents = {}
  /\ archSince["a"] = 1 /\ archSeq = 1

\* what C8 says: an archive about to be written has a file name that no
\* other archive in flight and no archive on disk has
ArchiveNamesDistinct ==
  \A j \in archiveJobs :
    j.stage = "write" =>
      /\ \A k \in archiveJobs \ {j} :
           k.stage = "write" => ArchivePath(k.id, k.ts) # ArchivePath(j.id, j.ts)
      /\ \A x \in archiveDir : x.path # ArchivePath(j.id, j.ts)

\* what C9 says: when the cache entry of l is deleted, a record with its
\* tasks is already on disk
PersistedBeforeForgotten ==
  [][\A l \in ListIds :
       (taskDataCache[l].present /\ ~taskDataCache'[l].present)
         => RecordsOf(l, taskDataCache[l].tasks) # {}]_vars

\* C10: a failed archive is only logged: the failure changes neither the
\* cache nor the pending timer nor a published file and starts no other
\* archive; the unlink that started the archive has left the debounce timer
\* armed, so the next pass runs; and no archive of the list is started
\* again for the same cache entry
ArchiveFailureOnlyLogged ==
  [][ /\ archFailed' # archFailed
           => /\ UNCHANGED <<taskDataCache, schedVars, passVars, archiveDir, archSeq,
                             archSince, served>>
              /\ archiveJobs' \subseteq archiveJobs
      /\ archSeq' > archSeq
           => /\ ~served'
              /\ \E t \in timers' : t.h = writeDebounceTimer' /\ t.left = DebounceMs
      /\ \A l \in ListIds : ArchiveStarted(l) => archSince[l] = 0 ]_vars

\* the archive of the removed list failed, and a later pass has published a
\* snapshot without the list
PublishedAfterFailure ==
  /\ "a" \in archFailed /\ archiveDir = {} /\ archiveJobs = {}
  /\ lastKnown["a"] # <<>> /\ fs["a"] = {} /\ archSince["a"] = 1
  /\ served /\ burst >= 1 /\ pc = "idle"
  /\ dataFile.taskLists = <<>> /\ htmlFile.data.taskLists = <<>>

\* ------------------------------------------------------------ the configuration
\* a POST /api/config was answered in this step
Answered == apiCalls' = apiCalls + 1

\* the field an error message names
NamedField(error) == IF error = "agentName" THEN "agentNames" ELSE error

\* C11: a config API write with a field that does not pass validation is
\* answered 400 with an error naming such a field, and leaves the in-memory
\* configuration and the config file as they were and requests no
\* regeneration
InvalidWriteRejected ==
  [][ (Answered /\ BadFields(apiLog'.input) # {})
        => /\ apiLog'.status = 400
           /\ NamedField(apiLog'.error) \in BadFields(apiLog'.input)
           /\ UNCHANGED <<currentConfig, configFile, configChanged, schedVars, reqHist>> ]_vars

\* after a write that set the interval to 600, a write of projectDir with
\* pollInterval 100 was rejected for pollInterval and neither field moved
SecondWriteRejected ==
  /\ apiCalls = 2 /\ apiLog.status = 400 /\ apiLog.error = "pollInterval"
  /\ DOMAIN apiLog.input = {"projectDir", "pollInterval"}
  /\ currentConfig.pollInterval = 600
  /\ currentConfig.projectDir = DEFAULT_CONFIG.projectDir
  /\ configFile = saveConfig(currentConfig)

\* nothing is pending: no timer, no change seen by the config watcher, no
\* pass under way
Quiescent == timers = {} /\ writeDebounceTimer = Null /\ ~configChanged /\ pc = "idle"

\* one POST /api/config was answered and nothing else came from outside
OneWriteOnly == apiCalls = 1 /\ edits = 0

\* the file holds exactly the fields of the in-memory configuration
FieldEqual(cfg, file) ==
  file.exists /\ file.parsable /\ DOMAIN file.json = ConfigFields
  /\ file.json = ConfigJson(cfg)

\* what C12 says: once a valid write answered 200 has run its course, the
\* file holds the new configuration, a read returns it, and one pass ran
ValidWriteOnePass ==
  (OneWriteOnly /\ apiLog.status = 200 /\ Quiescent)
    => /\ FieldEqual(currentConfig, configFile)
       /\ \A k \in DOMAIN apiLog.input : FieldOk(k, ConfigJson(currentConfig)[k])
       /\ passes = 1

\* the configuration the one write produced from the defaults
Written == validateConfig(apiLog.input, DEFAULT_CONFIG).config

\* C13: after one config API write and nothing further from outside, at
\* most one reload and at most two passes occur, the in-memory
\* configuration is the one written, and the system comes to rest with no
\* timer pending
WriteReloadConverges ==
  /\ [](OneWriteOnly => (reloads <= 1 /\ passes <= 2 /\ currentConfig = Written))
  /\ OneWriteOnly ~> (Quiescent \/ ~OneWriteOnly)

\* the write was saved, reloaded by the watcher and followed by two passes,
\* and the system is at rest with the written agent names
ConvergedAfterReload ==
  /\ OneWriteOnly /\ Quiescent /\ apiLog.status = 200
  /\ reloads = 1 /\ passes = 2
  /\ currentConfig.agentNames = << <<"x">>, <<"y">> >>

\* the in-memory configuration or the config file has been changed: by an
\* external edit, or by an API write that passed validation
ConfigTouched == edits > 0 \/ (apiCalls > 0 /\ apiLog.error \notin ConfigFields \cup {"agentName"})

\* what C14 says: after such a change, once nothing is pending and no
\* request was made for a debounce window, the in-memory configuration is
\* field-equal to the content of the config file
MemoryEqualsFile ==
  (ConfigTouched /\ Quiescent /\ quiet = DebounceMs)
    => FieldEqual(currentConfig, configFile)

\* the configuration returned by a validateConfig that succeeded
Validated == Answered /\ apiLog'.error \notin ConfigFields \cup {"agentName"}

\* C15: every configuration produced by a successful validateConfig is
\* read back by loadConfig from what saveConfig writes as the same record
\* (projectDir, pollInterval and agentNames in order), and a write answered
\* 200 leaves exactly that content in the config file
ValidatedRoundTrip ==
  [][ Validated =>
        /\ loadConfig(saveConfig(currentConfig')) = currentConfig'
        /\ (apiLog'.status = 200 =>
              /\ configFile' = saveConfig(currentConfig')
              /\ loadConfig(configFile') = currentConfig') ]_vars

\* a posted interval "600" was stored as the number 600, saved, and read
\* back by the reload as 600
RoundTripReloaded ==
  /\ apiCalls = 1 /\ edits = 0 /\ reloads = 1
  /\ apiLog.status = 200
  /\ apiLog.input = [pollInterval |-> JStr(<<"6", "0", "0">>)]
  /\ currentConfig.pollInterval = 600
  /\ configFile = saveConfig(currentConfig)

ValidConfig(c) ==
  /\ Len(c.projectDir) > 0
  /\ c.pollInterval \in PollMin..PollMax
  /\ Len(c.agentNames) > 0
  /\ \A i \in 1..Len(c.agentNames) : Len(c.agentNames[i]) > 0

\* C16: in every reachable state the in-memory configuration has a
\* non-empty projectDir, a pollInterval in [500, 60000] and a non-empty
\* sequence of non-empty agent names, whatever loads, API writes and
\* external edits have occurred
ConfigAlwaysValid == ValidConfig(currentConfig)

\* the file was edited to hold the interval 70000 and reloaded: the
\* in-memory interval is the default
OutOfRangeReloaded ==
  /\ edits = 1 /\ reloads = 1
  /\ configFile.parsable /\ Has(configFile.json, "pollInterval")
  /\ configFile.json.pollInterval = JNum(70000)
  /\ currentConfig.pollInterval = DEFAULT_CONFIG.pollInterval

\* the rule loadConfig applies to the value v the file holds for field k
LoadFieldOk(k, v) ==
  CASE k = "projectDir" -> v.t = "string" /\ Len(v.v) > 0
    [] k = "pollInterval" -> v.t = "number" /\ v.v >= PollMin /\ v.v <= PollMax
    [] k = "agentNames" ->
         /\ v.t = "array" /\ Len(v.v) > 0
         /\ \A i \in 1..Len(v.v) : v.v[i].t = "string" /\ Len(v.v[i].v) > 0
    [] OTHER -> FALSE

\* the value of field k of a parsed file, as a field of MonitorConfig
FileValue(k, v) ==
  IF k = "agentNames" THEN [i \in 1..Len(v.v) |-> v.v[i].v] ELSE v.v

\* field k of c is the file's value when the file has one that passes
\* load's rule, and the default otherwise
FieldLoaded(k, file, c) ==
  IF file.exists /\ file.parsable /\ Has(file.json, k) /\ LoadFieldOk(k, file.json[k])
  THEN c[k] = FileValue(k, file.json[k])
  ELSE c[k] = DEFAULT_CONFIG[k]

Reloaded == reloads' = reloads + 1

\* C17: loadConfig falls back field by field: at startup and at every
\* reload, each of projectDir, pollInterval and agentNames is, on its own,
\* the file's value when that value passes and the default otherwise, so an
\* invalid field never resets a valid sibling; a missing or unparsable file
\* gives all defaults
LoadFallsBackPerField ==
  /\ []((apiCalls = 0 /\ edits = 0) =>
          \A k \in ConfigFields : FieldLoaded(k, configFile, currentConfig))
  /\ [][ Reloaded =>
            /\ \A k \in ConfigFields : FieldLoaded(k, configFile, currentConfig')
            /\ (~configFile.exists \/ ~configFile.parsable)
                  => currentConfig' = DEFAULT_CONFIG ]_vars

\* a file with an out-of-range interval was reloaded: the interval is the
\* default while projectDir and agentNames are the file's
SiblingsKept ==
  /\ reloads = 1 /\ edits = 1 /\ apiCalls = 0
  /\ configFile.parsable /\ DOMAIN configFile.json = ConfigFields
  /\ ~LoadFieldOk("pollInterval", configFile.json.pollInterval)
  /\ currentConfig =
       [projectDir |-> <<" ", "p">>, pollInterval |-> DEFAULT_CONFIG.pollInterval,
        agentNames |-> << <<"x">> >>]

\* what C18 says: for every field value of the config file, loadConfig
\* keeps it exactly when validateConfig accepts it, and both store the same
\* value
LoadAndWriteSameRules ==
  (configFile.exists /\ configFile.parsable) =>
    \A k \in DOMAIN configFile.json \cap ConfigFields :
      LET v == configFile.json[k]
          posted == validateConfig([f \in {k} |-> v], currentConfig)
      IN /\ LoadFieldOk(k, v) <=> FieldOk(k, v)
         /\ LoadFieldOk(k, v) => loadConfig(configFile)[k] = posted.config[k]

\* C19: a partial update that passes validation changes exactly the
\* fields present in the body: an absent field keeps the value the
\* in-memory configuration had before the write, a present field takes the
\* posted value
PartialUpdateFrame ==
  [][ Validated =>
        \A k \in ConfigFields :
          currentConfig'[k] = IF Has(apiLog'.input, k)
                              THEN PostedValue(k, apiLog'.input[k])
                              ELSE currentConfig[k] ]_vars

\* two partial writes in a row, the interval and then the agent names: the
\* second kept the interval of the first
SecondWriteKeptFirst ==
  /\ apiCalls = 2 /\ edits = 0
  /\ apiLog.status = 200 /\ DOMAIN apiLog.input = {"agentNames"}
  /\ currentConfig.pollInterval = 600
  /\ currentConfig.agentNames = << <<"x">>, <<"y">> >>

\* ------------------------------------------------------------ malformed task files
\* the task files of list l that can be read and parsed
WellFormed(l) == fs[l] \ BadFileIds

TaskIds(tasks) == {tasks[i].id : i \in 1..Len(tasks)}

\* C20: a list directory holding N task files of which K cannot be read or
\* parsed, with N - K > 0, is scanned into a list of exactly the N - K
\* well-formed tasks and a summary counting N - K, and that is what the pass
\* publishes: the malformed files neither drop the list nor end the pass
MalformedFilesSkipped ==
  [][ /\ (pc = "idle" /\ pc' = "summaries") =>
           \A l \in ListIds :
             WellFormed(l) # {} =>
               \E i \in 1..Len(taskLists') :
                 /\ taskLists'[i].id = l
                 /\ Len(taskLists'[i].tasks) = Cardinality(WellFormed(l))
                 /\ TaskIds(taskLists'[i].tasks) = WellFormed(l)
      /\ (pc = "summaries" /\ pc' = "writeJson") =>
           \A l \in ListIds :
             WellFormed(l) # {} =>
               \E i \in 1..Len(availableLists') :
                 /\ availableLists'[i].id = l
                 /\ availableLists'[i].taskCount = Cardinality(WellFormed(l))
      /\ (pc = "writeJson" /\ pc' = "writeHtml") =>
           /\ dataFile'.taskLists = taskLists
           /\ dataFile'.availableLists = availableLists ]_vars

\* a pass scanned list a holding 1.json, 2.json and the malformed 3.json,
\* and published the list with tasks 1 and 2
TwoOfThreePublished ==
  /\ pc = "writeHtml"
  /\ unseen["a"] = {1, 2, 3}
  /\ dataFile.taskLists = <<[id |-> "a", tasks |-> <<[id |-> 1], [id |-> 2]>>]>>
  /\ dataFile.availableLists = <<[id |-> "a", taskCount |-> 2]>>

\* C21: a list without any readable task is left out entirely: the scan
\* of getTaskLists yields no list for it and writes no cache entry for it,
\* the scan of getAllTaskListSummaries yields no summary for it, and the
\* snapshot written is made of these two results
EmptyListExcluded ==
  [][ /\ (pc = "idle" /\ pc' = "summaries") =>
           \A l \in ListIds :
             WellFormed(l) = {} =>
               /\ l \notin SnapshotIds(taskLists')
               /\ taskDataCache'[l] = taskDataCache[l]
      /\ (pc = "summaries" /\ pc' = "writeJson") =>
           \A l \in ListIds :
             WellFormed(l) = {} => l \notin SnapshotIds(availableLists')
      /\ (pc = "writeJson" /\ pc' = "writeHtml") =>
           dataFile' = MonitorData(taskLists, availableLists, currentConfig) ]_vars

\* a pass scanned list a holding nothing but the malformed 3.json and wrote
\* a snapshot without any list
OnlyMalformedPublishedEmpty ==
  /\ pc = "writeHtml"
  /\ fs["a"] = {3} /\ watchEvents = {}
  /\ dataFile.taskLists = <<>>
  /\ dataFile.availableLists = <<>>
  /\ ~taskDataCache["a"].present

\* ------------------------------------------------------------ the aggregation
ScanStep == pc = "idle" /\ pc' = "summaries"
SummaryStep == pc = "summaries" /\ pc' = "writeJson"
JsonStep == pc = "writeJson" /\ pc' = "writeHtml"

\* directory d can be listed and holds task files
HasTasks(d) == tree[d].present /\ tree[d].readable /\ DOMAIN tree[d].files # {}

\* directory d exists and its listing throws
Unreadable(d) == tree[d].present /\ ~tree[d].readable

\* C22: a list directory whose listing throws is skipped and the pass goes
\* on: in both scans every other directory holding readable tasks yields
\* its list, with all its tasks, and the JSON written holds these lists
UnreadableDirSkipped ==
  [][ /\ ScanStep =>
           \A d \in TreeLists :
             /\ HasTasks(d) => \E i \in 1..Len(taskLists') :
                                 /\ taskLists'[i].id = d
                                 /\ TaskIds(taskLists'[i].tasks) = DOMAIN tree[d].files
             /\ Unreadable(d) => d \notin SnapshotIds(taskLists')
      /\ SummaryStep =>
           \A d \in TreeLists :
             /\ HasTasks(d) => \E i \in 1..Len(availableLists') :
                                 /\ availableLists'[i].id = d
                                 /\ availableLists'[i].taskCount
                                      = Cardinality(DOMAIN tree[d].files)
             /\ Unreadable(d) => d \notin SnapshotIds(availableLists')
      /\ JsonStep =>
           /\ dataFile'.taskLists = taskLists
           /\ dataFile'.availableLists = availableLists ]_vars

\* a pass ran while directory a, holding task files, could not be listed:
\* the snapshot written holds list b alone
OtherListPublished ==
  /\ pc = "writeHtml" /\ watchEvents = {}
  /\ Unreadable("a") /\ DOMAIN tree["a"].files # {}
  /\ HasTasks("b")
  /\ SnapshotIds(dataFile.taskLists) = {"b"}
  /\ SnapshotIds(dataFile.availableLists) = {"b"}

\* the lists of tl are in descending order of lastModified
Descending(tl) ==
  \A i \in 1..Len(tl) - 1 : tl[i].lastModified >= tl[i + 1].lastModified

\* the snapshot d names its first list as selected, or no list when it has
\* none
SelectsFirst(d) ==
  /\ Descending(d.taskLists)
  /\ d.selectedListId = IF d.taskLists = <<>> THEN "" ELSE d.taskLists[1].id
  /\ d.selectedListId = "" <=> d.taskLists = <<>>

\* C23: every published snapshot lists taskLists newest first, lastModified
\* being the newest mtime among the list's task files at the scan, and
\* selectedListId is the id of the first list, or the empty string exactly
\* when there is no list
SnapshotNewestFirst ==
  /\ [](SelectsFirst(dataFile) /\ SelectsFirst(htmlFile.data))
  /\ [][ ScanStep =>
            \A i \in 1..Len(taskLists') :
              LET d == taskLists'[i].id
              IN /\ \A f \in DOMAIN tree[d].files :
                      tree[d].files[f] <= taskLists'[i].lastModified
                 /\ \E f \in DOMAIN tree[d].files :
                      tree[d].files[f] = taskLists'[i].lastModified ]_vars

\* list b, listed after a in the root, was modified last: a pass that ran
\* after 2.json of a was removed wrote a snapshot that puts b first and
\* selects it
NewerListFirst ==
  /\ changes = 1 /\ DOMAIN tree["a"].files = {1}
  /\ Len(dataFile.taskLists) = 2
  /\ dataFile.taskLists[1].id = "b" /\ dataFile.taskLists[1].lastModified = 2
  /\ dataFile.taskLists[2].id = "a" /\ dataFile.taskLists[2].lastModified = 1
  /\ dataFile.taskLists[2].tasks = <<[id |-> 1]>>
  /\ dataFile.selectedListId = "b"
  /\ htmlFile.data = dataFile

\* the snapshot d has the same lists, in the same order, in taskLists and
\* in availableLists, with the same task count and lastModified
Consistent(d) ==
  /\ Len(d.taskLists) = Len(d.availableLists)
  /\ \A i \in 1..Len(d.taskLists) :
       /\ d.availableLists[i].id = d.taskLists[i].id
       /\ d.availableLists[i].taskCount = Len(d.taskLists[i].tasks)
       /\ d.availableLists[i].lastModified = d.taskLists[i].lastModified

\* what C24 says: every published snapshot is internally consistent, also
\* when other processes change the root while the pass runs
SnapshotConsistent == Consistent(dataFile) /\ Consistent(htmlFile.data)

\* what C25 says: between passes, whether the last one completed or
\* failed partway, the JSON artifact and the HTML artifact embed the same
\* snapshot
ArtifactsAgree == pc = "idle" => htmlFile.data = dataFile

\* ------------------------------------------------------------ failures
\* writeFiles returns: after the HTML write, or from its catch block
PassEnds ==
  /\ pc \in {"summaries", "writeJson", "writeHtml"}
  /\ pc' \notin {pc, "writeJson", "writeHtml"}

\* the timer's callback ran and the scan threw: writeFiles returned from
\* its catch block at once
ScanThrows == CallbackRan /\ pc = "idle" /\ pc' = "idle"

\* the artifacts show that a pass has thrown between its two writes
FailedBefore == htmlFile.data # dataFile

TreeQuiescent ==
  watchEvents = {} /\ timers = {} /\ writeDebounceTimer = Null /\ pc = "idle"

\* what C27 says: once the changes made under the root (task files and
\* prompt files added, changed or removed; every directory listable) have
\* been followed by quiescence, the published snapshot is the aggregation
\* of the root as it is
SnapshotFollowsRoot ==
  (TreeQuiescent /\ \A d \in DirNames : tree[d].readable) =>
    dataFile = MonitorData(getTaskListsIn(tree), getAllTaskListSummariesIn(tree),
                           currentConfig)

\* ------------------------------------------------------------ the archive directory
\* the archive directory is not a list of the snapshot d
NotAList(d) ==
  /\ ".archive" \notin SnapshotIds(d.taskLists)
  /\ ".archive" \notin SnapshotIds(d.availableLists)

\* the handler of an event under the archive directory ran
ArchiveEventHandled ==
  \E e \in watchEvents :
    e.dirs # <<>> /\ e.dirs[1] = ".archive" /\ watchEvents' = watchEvents \ {e}

\* C28: the archive directory is never taken for a task list: it is in no
\* scan result, in no published snapshot and has no cache entry, and the
\* handler of a file event under it starts no archive and makes no
\* regeneration request
ArchiveDirNeverAList ==
  /\ [](/\ ".archive" \notin SnapshotIds(taskLists)
        /\ ".archive" \notin SnapshotIds(availableLists)
        /\ NotAList(dataFile) /\ NotAList(htmlFile.data)
        /\ ~taskDataCache[".archive"].present)
  /\ [][ ArchiveEventHandled =>
            UNCHANGED <<archiveJobs, archSeq, timers, writeDebounceTimer, served, burst>> ]_vars

\* an archive file was removed from the archive directory and the unlink
\* handler ran: no archive was started and no request was made
ArchiveUnlinkIgnored ==
  /\ tree[".archive"].present /\ DOMAIN tree[".archive"].files = {}
  /\ \E d \in TreeLists : HasTasks(d) /\ taskDataCache[d].present
  /\ watchEvents = {} /\ changes = 1
  /\ archiveJobs = {} /\ timers = {} /\ burst = 0

\* ------------------------------------------------------------ the configuration in the documents
\* what a pass writes: a pass that writes the JSON artifact puts the
\* projectDir of the in-memory configuration in it, and a pass that writes
\* the HTML artifact puts that projectDir and that pollInterval in it
PassMirrorsConfig ==
  [][ /\ dataFile' # dataFile => dataFile'.projectDir = currentConfig.projectDir
      /\ htmlFile' # htmlFile =>
           /\ htmlFile'.data.projectDir = currentConfig.projectDir
           /\ htmlFile'.pollInterval = currentConfig.pollInterval ]_vars

\* C29: the configuration is mirrored into every generated document; after
\* a config change (an external edit, or an API write that passed
\* validation), once no timer, reload or pass is pending, the projectDir of
\* the JSON artifact and of the data in the HTML artifact and the interval
\* in the HTML footer are those of the in-memory configuration
ArtifactsMirrorConfig ==
  (ConfigTouched /\ Quiescent) =>
    /\ dataFile.projectDir = currentConfig.projectDir
    /\ htmlFile.data.projectDir = currentConfig.projectDir
    /\ htmlFile.pollInterval = currentConfig.pollInterval

\* ------------------------------------------------------------ the dashboard's available tasks
\* every id in the task's blockedBy is the id of a task of the list whose
\* status is completed; so it is when blockedBy is empty
BlockersCompleted(task, tasks) ==
  \A i \in DOMAIN task.blockedBy :
    \E j \in DOMAIN tasks :
      tasks[j].id = task.blockedBy[i] /\ tasks[j].status = "completed"

\* the pending tasks of a list whose blockers are all completed
Unblocked(tasks) ==
  {i \in DOMAIN tasks : tasks[i].status = "pending" /\ BlockersCompleted(tasks[i], tasks)}

\* C30: on the rendered dashboard a pending task is shown as available
\* (class and launch label) if and only if every id in its blockedBy is the
\* id of a completed task of the same list, or blockedBy is empty; every
\* other pending task is shown as blocked; and the available count is the
\* number of pending tasks shown as available
PendingAvailableIffUnblocked ==
  (page.rendered /\ Len(TASK_DATA) > 0) =>
    LET tasks == TASK_DATA[1].tasks
    IN /\ Len(page.rows) = Len(tasks)
       /\ \A i \in DOMAIN tasks :
            tasks[i].status = "pending" =>
              /\ page.rows[i].id = tasks[i].id
              /\ (page.rows[i].taskClass = "task pending available") <=> (i \in Unblocked(tasks))
              /\ page.rows[i].canLaunch <=> (i \in Unblocked(tasks))
              /\ (page.rows[i].taskClass = "task pending blocked") <=> (i \notin Unblocked(tasks))
       /\ page.available = Cardinality(Unblocked(tasks))

\* the page has rendered the published list, in which task 1 is pending with
\* no blockers and task 2 is pending, blocked by task 1 and by an id that
\* is no task of the list: one task is available and task 2 waits on both
BlockedPendingShown ==
  /\ page.rendered /\ ~page.fetchFailed
  /\ MONITOR_DATA = dataFile /\ Len(TASK_DATA) > 0
  /\ TASK_DATA[1].tasks =
       <<[id |-> 1, status |-> "pending", blockedBy |-> <<>>],
         [id |-> 2, status |-> "pending", blockedBy |-> <<1, 3>>]>>
  /\ page.available = 1
  /\ page.rows[1].taskClass = "task pending available"
  /\ page.rows[2].taskClass = "task pending blocked"
  /\ page.rows[2].waitingOn = <<1, 3>>

\* ------------------------------------------------------------ files lost during a scan
\* a scan during which a task file was deleted
RaceStep ==
  /\ tree' # tree
  /\ \/ pc = "idle" /\ pc' = "summaries"
     \/ pc = "summaries" /\ pc' = "writeJson"

\* C31: a task file that disappears in the middle of a scan, after it was
\* parsed and before its modification time is read, costs at most that one
\* task: a list that still holds task files after the deletion is in the
\* result of that scan, with the tasks of the files it still holds
VanishedFileOnlyOmitted ==
  [][ RaceStep =>
        \A d \in TreeLists :
          (tree'[d].present /\ tree'[d].readable /\ DOMAIN tree'[d].files # {}) =>
            IF pc = "idle"
            THEN \E i \in DOMAIN taskLists' :
                   /\ taskLists'[i].id = d
                   /\ DOMAIN tree'[d].files \subseteq SnapshotIds(taskLists'[i].tasks)
            ELSE d \in SnapshotIds(availableLists') ]_vars

\* ------------------------------------------------------------ the cache after a scan
\* C32: immediately after every completed aggregation, for every list in
\* the snapshot's taskLists the reconciliation cache holds an entry for
\* that list id whose tasks and lastModified are those published for the
\* list, whatever entry it held before
CacheHoldsPublished ==
  [][ ScanStep =>
        \A i \in DOMAIN taskLists' :
          taskDataCache'[taskLists'[i].id] =
            [present |-> TRUE, tasks |-> taskLists'[i].tasks,
             lastModified |-> taskLists'[i].lastModified] ]_vars

\* list a was cached at start with both files at time 1; 1.json was then
\* rewritten at time 2 and the scan of the next pass has replaced the entry
OlderEntryReplaced ==
  /\ pc = "summaries" /\ changes = 1
  /\ tree["a"].present /\ DOMAIN tree["a"].files = {1, 2}
  /\ tree["a"].files[1] = 2 /\ tree["a"].files[2] = 1
  /\ \E i \in DOMAIN taskLists : taskLists[i].id = "a" /\ taskLists[i].lastModified = 2
  /\ taskDataCache["a"] =
       [present |-> TRUE, tasks |-> <<[id |-> 1], [id |-> 2]>>, lastModified |-> 2]

\* ------------------------------------------------------------ the cache and the snapshot
\* the contents another run's cache could have: per directory no entry, or
\* an entry left by an earlier scan
OtherCaches ==
  [DirNames -> {NoEntry,
                [present |-> TRUE, tasks |-> <<[id |-> 1]>>, lastModified |-> 1],
                [present |-> TRUE, tasks |-> <<[id |-> 1], [id |-> 2]>>,
                 lastModified |-> MaxMtime]}]

Scanned == pc = "summaries" /\ taskLists # <<>>

\* a sequence of tasks is in ascending order of numeric id, tasks whose ids
\* are the same number or the same string in the order of their files
InIdOrder(ts) ==
  \A i, j \in DOMAIN ts :
    i < j =>
      LET x == parseInt(ts[i].id)
          y == parseInt(ts[j].id)
      IN /\ (~x.nan /\ ~y.nan) => x.n <= y.n
         /\ ((~x.nan /\ ~y.nan /\ x.n = y.n) \/ ts[i].id = ts[j].id) =>
              ts[i].file < ts[j].file

\* what holds of the order: a list whose task ids all start with a digit
\* is published in ascending numeric order, equal numbers in scan order
NumericIdsInOrder ==
  (Scanned /\ \A i \in DOMAIN listing :
                 listing[i].content # Garbled => ~parseInt(listing[i].content).nan)
    => InIdOrder(taskLists[1].tasks)

\* C34: within every published list the tasks are in ascending order of
\* numeric id, and tasks whose ids compare equal keep their scan order,
\* whatever the task files hold
TasksInIdOrder == Scanned => InIdOrder(taskLists[1].tasks)

\* ------------------------------------------------------------ lastModified of a list
\* the files of the listing that gave a task
TaskGiving == {i \in DOMAIN listing : listing[i].content # Garbled}

ErrorLeavesConfig ==
  [][ (Answered /\ apiLog'.status # 200) => currentConfig' = currentConfig ]_vars

\* ------------------------------------------------------------ whose removal archives a list
\* an archive of list l was started in this step, or the cache entry of l
\* was deleted
ArchivedOrForgotten(l) ==
  \/ archSeq' = archSeq + 1 /\ \E j \in archiveJobs' : j.n = archSeq' /\ j.id = l
  \/ taskDataCache[l].present /\ ~taskDataCache'[l].present

\* the unlink handler ran in this step for a .json file that lay in the
\* directory of list l itself
OwnFileUnlinked(l) ==
  \E e \in watchEvents :
    /\ e.kind = "unlink" /\ e.json /\ e.dirs = <<l>>
    /\ watchEvents' = watchEvents \ {e}

\* C37: an archive of list L is started, and the cache entry of L deleted,
\* only by the unlink handler of a .json file that was an immediate child of
\* the directory of L; the removal of a .json file elsewhere under the root
\* does neither
ArchiveOnlyByOwnFile ==
  [][ \A l \in DirNames : ArchivedOrForgotten(l) => OwnFileUnlinked(l) ]_vars

\* ------------------------------------------------------------ the filter and the scan
\* the handler of event e ran in this step
Handled(e) == e \in watchEvents /\ watchEvents' = watchEvents \ {e}

\* the state a call of scheduleWriteFiles leaves
Requested == served' = FALSE /\ quiet' = 0 /\ writeDebounceTimer' # Null

\* the file of event e lay under the archive directory
UnderArchive(e) == e.dirs # <<>> /\ e.dirs[1] = ".archive"

\* C38: the filter of the watcher handlers and the scan agree on what a
\* task list is: the handler of an add, change or removal of a .json file
\* requests a regeneration unless the file lay under the archive directory,
\* and for a task file of a published list the removal also takes the cache
\* entry of the list
FilterAgreesWithScan ==
  [][ \A e \in watchEvents :
        (Handled(e) /\ e.json /\ ~UnderArchive(e)) =>
          /\ Requested
          /\ (/\ e.kind = "unlink" /\ Len(e.dirs) = 1
              /\ e.dirs[1] \in SnapshotIds(dataFile.taskLists)
              /\ taskDataCache[e.dirs[1]].present)
               => ~taskDataCache'[e.dirs[1]].present ]_vars

\* ------------------------------------------------------------ the poll timer of the page
\* C39: the page has at most one live poll timer, after its initialisation
\* and after any number of loads and saves of the settings: the timer
\* pollTimer names is the only one
OnePollTimer ==
  /\ Cardinality(intervals) <= 1
  /\ \A i \in intervals : i.h = pollTimer

====
